---- MODULE Spec2Model ----
(***************************************************************************)
(* State-machine model of hr_agent_sdk.security.SecurityMonitor            *)
(* (src/SDK/python/hr_agent_sdk/security.py): the two bounded event logs,  *)
(* the threat and PII analyses that feed them, and the scores and summary  *)
(* derived from them; further the SecurityMonitor of SDK-HR, and the       *)
(* tracker's track_request with the MetricsCollector and the HealthMonitor *)
(* beside it (tracker.py, metrics.py, health.py).                          *)
(*                                                                         *)
(* Time is in seconds; a call takes no time, so every time.time() read of  *)
(* one call returns the same value `now`.  Regular-expression matching is  *)
(* the library's: re.search / re.findall are tabulated for the strings the *)
(* model feeds in (the tables are the outputs of the patterns of           *)
(* _initialize_threat_patterns / _initialize_pii_patterns on them).        *)
(***************************************************************************)
EXTENDS Integers, Sequences, FiniteSets, TLC

(***************************************************************************)
(* Bounds of the model.                                                    *)
(***************************************************************************)
\* calls explored after the initial state
MaxOps == 3
\* room left in both logs in the nearly-full initial state
Headroom == 1
\* patterns matching one content, where the content is any string
MaxHits == 2
\* matches of one PII pattern in one text, where the text is any string
MaxFound == 2
\* calls each logging thread makes
MaxCalls == 2

(***************************************************************************)
(* Program constants.                                                      *)
(***************************************************************************)
\* security.py:243 and :274  `if len(...) > 1000`
MaxEvents == 1000
\* security.py:286 and :291  `< 3600  # Last hour`
RecentWindow == 3600
\* security.py:356 and :389  `time.time() - 86400  # 24 hours`
ScoreWindow == 86400
\* security.py:172  `matches[:5]`
MaxSamples == 5
\* security.py:301-302  `[-5:]`
LatestCount == 5

Min(a, b) == IF a < b THEN a ELSE b
Max(a, b) == IF a > b THEN a ELSE b

\* Python's None and the empty dict `{}`
None == [none |-> TRUE]
EmptyDict == [k \in {} |-> 0]

\* seq[-n:]
LastN(seq, n) == SubSeq(seq, Max(1, Len(seq) - n + 1), Len(seq))
\* seq[:n]
FirstN(seq, n) == SubSeq(seq, 1, Min(n, Len(seq)))

(***************************************************************************)
(* The event logs: log_security_event, log_compliance_event.               *)
(***************************************************************************)
\* security.py:229-236: the event dict; id is the current length plus one
NewSecurityEvent(events, event_type, description, severity, metadata, t) ==
    [id          |-> Len(events) + 1,
     event_type  |-> event_type,
     description |-> description,
     severity    |-> severity,
     metadata    |-> metadata,
     timestamp   |-> t]

\* security.py:262-269
NewComplianceEvent(logs, compliance_type, status, details, metadata, t) ==
    [id              |-> Len(logs) + 1,
     compliance_type |-> compliance_type,
     status          |-> status,
     details         |-> details,
     metadata        |-> metadata,
     timestamp       |-> t]

\* KeepLast with a fault: the entries kept are numbered anew from 1
KeepLastRenumbered(events) ==
    IF Len(events) > MaxEvents
    THEN [i \in 1..MaxEvents |->
             [events[Len(events) - MaxEvents + i] EXCEPT !.id = i]]
    ELSE events

\* KeepLast with a fault: the cap is never applied
KeepLastNoCap(events) == events

\* KeepLast with a fault: at the cap the newest entry is dropped, not the oldest
KeepLastDropNewest(events) ==
    IF Len(events) > MaxEvents THEN SubSeq(events, 1, MaxEvents) ELSE events

\* security.py:243-244 and 274-275: keep only the last 1000 entries
KeepLast(events) ==
    IF Len(events) > MaxEvents THEN LastN(events, MaxEvents) ELSE events

\* defaultdict(int): counts[key] += 1
Bump(counts, key) ==
    [k \in DOMAIN counts \cup {key} |->
        IF k = key
        THEN (IF key \in DOMAIN counts THEN counts[key] ELSE 0) + 1
        ELSE counts[k]]

VARIABLES
    security_events,   \* self.security_events
    compliance_logs,   \* self.compliance_logs
    event_counts,      \* self.event_counts
    severity_counts,   \* self.severity_counts
    now,               \* the wall clock, time.time()
    result,            \* what the last call returned
    args,              \* the arguments of the last call
    lastOp,            \* the last step: the call just made, or "tick"
    start,             \* history: the monitor's state when the exploration began
    appended_sec,      \* history: the security events appended since, in order
    appended_comp,     \* history: the compliance events appended since, in order
    nops,              \* calls made so far
    threads,           \* per thread inside a call: its position and its locals
    snapshots,         \* history: the log states that existed during a summary call
    metrics,           \* the tracker's MetricsCollector, self.metrics
    health             \* the tracker's HealthMonitor, self.health

vars == <<security_events, compliance_logs, event_counts, severity_counts,
          now, result, args, lastOp, start, appended_sec, appended_comp, nops,
          threads, snapshots, metrics, health>>

\* DoLogSecurityEvent with a fault: the histograms forget an evicted event
DoLogSecurityEventForgets(event_type, description, severity, metadata) ==
    LET event == NewSecurityEvent(security_events, event_type, description,
                                  severity, metadata, now)
        Forget(counts, key) ==
            [k \in DOMAIN counts |-> IF k = key THEN counts[k] - 1 ELSE counts[k]]
        full == Len(security_events) = MaxEvents
    IN /\ security_events' = KeepLast(Append(security_events, event))
       /\ event_counts' =
              Bump(IF full THEN Forget(event_counts, security_events[1].event_type)
                   ELSE event_counts, event_type)
       /\ severity_counts' =
              Bump(IF full THEN Forget(severity_counts, security_events[1].severity)
                   ELSE severity_counts, severity)
       /\ appended_sec' = Append(appended_sec, event)

\* security.py:213-244, as a step of the monitor's state
DoLogSecurityEvent(event_type, description, severity, metadata) ==
    LET event == NewSecurityEvent(security_events, event_type, description,
                                  severity, metadata, now)
    IN /\ security_events' = KeepLast(Append(security_events, event))
       /\ event_counts' = Bump(event_counts, event_type)
       /\ severity_counts' = Bump(severity_counts, severity)
       /\ appended_sec' = Append(appended_sec, event)

\* security.py:246-275, as a step of the monitor's state
DoLogComplianceEvent(compliance_type, status, details, metadata) ==
    LET event == NewComplianceEvent(compliance_logs, compliance_type, status,
                                    details, metadata, now)
    IN /\ compliance_logs' = KeepLast(Append(compliance_logs, event))
       /\ appended_comp' = Append(appended_comp, event)

(***************************************************************************)
(* The pattern catalog.                                                    *)
(***************************************************************************)
\* security.py:33-74: the threat types in the dict's (insertion) order, and
\* the number of patterns of each; pattern n of type t is <<t, n>>
ThreatTypes == <<"sql_injection", "xss", "command_injection", "path_traversal">>

PatternCount ==
    [sql_injection |-> 9, xss |-> 8, command_injection |-> 8, path_traversal |-> 7]

PatternsOf(threat_type) ==
    [n \in 1..PatternCount[threat_type] |-> <<threat_type, n>>]

\* the (threat_type, pattern) pairs in the order the nested loops of
\* security.py:111-112 visit them
ThreatRules ==
    PatternsOf(ThreatTypes[1]) \o PatternsOf(ThreatTypes[2])
        \o PatternsOf(ThreatTypes[3]) \o PatternsOf(ThreatTypes[4])

ThreatRuleSet == {ThreatRules[i] : i \in 1..Len(ThreatRules)}

\* security.py:83-90: the PII types in the dict's order
PIITypes == <<"email", "phone", "ssn", "credit_card", "ip_address", "url">>

PIITypeSet == {PIITypes[i] : i \in 1..Len(PIITypes)}

Severities == {"low", "medium", "high", "critical"}

\* GetThreatSeverity with a fault: sql_injection rated high
GetThreatSeverityBad(threat_type) ==
    CASE threat_type = "sql_injection" -> "high"
      [] threat_type = "command_injection" -> "critical"
      [] threat_type = "xss" -> "high"
      [] threat_type = "path_traversal" -> "high"
      [] OTHER -> "medium"

\* security.py:307-323
GetThreatSeverity(threat_type) ==
    CASE threat_type = "sql_injection" -> "critical"
      [] threat_type = "command_injection" -> "critical"
      [] threat_type = "xss" -> "high"
      [] threat_type = "path_traversal" -> "high"
      [] OTHER -> "medium"

\* GetPIISeverity with a fault: ssn rated medium
GetPIISeverityBad(pii_type) ==
    CASE pii_type = "ssn" -> "medium"
      [] pii_type = "credit_card" -> "critical"
      [] pii_type = "email" -> "medium"
      [] pii_type = "phone" -> "medium"
      [] pii_type = "ip_address" -> "low"
      [] pii_type = "url" -> "low"
      [] OTHER -> "medium"

\* security.py:325-343
GetPIISeverity(pii_type) ==
    CASE pii_type = "ssn" -> "critical"
      [] pii_type = "credit_card" -> "critical"
      [] pii_type = "email" -> "medium"
      [] pii_type = "phone" -> "medium"
      [] pii_type = "ip_address" -> "low"
      [] pii_type = "url" -> "low"
      [] OTHER -> "medium"

(***************************************************************************)
(* Inputs.  A request content is a string together with the set of threat  *)
(* patterns re.search finds in it; a text is a string together with what   *)
(* re.findall returns for each PII pattern.                                *)
(***************************************************************************)
Content(text, hits) == [text |-> text, hits |-> hits]

\* str(''): the default of request_data.get('content', '')
EmptyContent == Content("", {})

\* the strings the monitor is fed, with the patterns that match them
Contents ==
    { EmptyContent,
      Content("SELECT * FROM users; DROP TABLE users;", {<<"sql_injection", 2>>}),
      Content("<script>; rm -rf /", {<<"xss", 1>>, <<"command_injection", 1>>}),
      Content("../../etc/passwd", {<<"path_traversal", 1>>, <<"path_traversal", 4>>}) }

\* security.py:113  re.search(pattern, content)
ReSearch(pattern, content) == pattern \in content.hits

NoPII == [t \in PIITypeSet |-> <<>>]

Text(text, found) == [text |-> text, found |-> found]

\* the texts the monitor is fed, with the matches of each PII pattern
Texts ==
    { Text("", NoPII),
      Text("My SSN is 123-45-6789 and email is a@b.com",
           [NoPII EXCEPT !["ssn"] = <<"123-45-6789">>, !["email"] = <<"a@b.com">>]),
      Text("see http://x.io/a", [NoPII EXCEPT !["url"] = <<"http://x.io/a">>]),
      Text("a@b.com c@d.org e@f.net g@h.io i@j.co k@l.me",
           [NoPII EXCEPT !["email"] =
               <<"a@b.com", "c@d.org", "e@f.net", "g@h.io", "i@j.co", "k@l.me">>]) }

\* security.py:167  re.findall(pattern, text)
ReFindAll(pii_type, text) == text.found[pii_type]

(***************************************************************************)
(* analyze_request_security and check_data_privacy.                        *)
(***************************************************************************)
\* request_data.get('content', '')
GetContent(request_data) ==
    IF "content" \in DOMAIN request_data THEN request_data["content"] ELSE EmptyContent

\* UpdateSeverity with a fault: the severity of the last match wins
UpdateSeverityLastWins(severity, threat_severity) == threat_severity

\* security.py:121-127: the running overall severity after one more match
UpdateSeverity(severity, threat_severity) ==
    IF threat_severity = "critical" THEN "critical"
    ELSE IF threat_severity = "high" /\ severity # "critical" THEN "high"
    ELSE IF threat_severity = "medium" /\ severity \notin {"critical", "high"}
         THEN "medium"
    ELSE severity

\* security.py:114-118
ThreatInfo(rule) ==
    [type |-> rule[1], pattern |-> rule, severity |-> GetThreatSeverity(rule[1])]

\* security.py:104-127: the loops over the patterns, from rule i on
RECURSIVE ScanThreats(_, _, _, _)
ScanThreats(i, content, threats_detected, severity) ==
    IF i > Len(ThreatRules)
    THEN [threats_detected |-> threats_detected, severity |-> severity]
    ELSE IF ReSearch(ThreatRules[i], content)
         THEN LET threat_info == ThreatInfo(ThreatRules[i])
              IN ScanThreats(i + 1, content,
                             Append(threats_detected, threat_info),
                             UpdateSeverity(severity, threat_info.severity))
         ELSE ScanThreats(i + 1, content, threats_detected, severity)

\* security.py:169-174
PIIInfo(pii_type, matches) ==
    [type     |-> pii_type,
     count    |-> Len(matches),
     matches  |-> FirstN(matches, MaxSamples),
     severity |-> GetPIISeverity(pii_type)]

\* security.py:164-175: the loop over the PII patterns, from type i on
RECURSIVE ScanPII(_, _, _)
ScanPII(i, text, pii_detected) ==
    IF i > Len(PIITypes) THEN pii_detected
    ELSE LET matches == ReFindAll(PIITypes[i], text)
         IN IF matches # <<>>
            THEN ScanPII(i + 1, text,
                         Append(pii_detected, PIIInfo(PIITypes[i], matches)))
            ELSE ScanPII(i + 1, text, pii_detected)

\* ComplianceStatus with a fault: the last two branches are exchanged, a text
\* without PII gets the warning
ComplianceStatusEmptyWarns(pii_detected) ==
    IF \E i \in 1..Len(pii_detected) :
           pii_detected[i].severity \in {"high", "critical"}
    THEN [compliance_status |-> "non_compliant", severity |-> "high"]
    ELSE IF pii_detected = <<>>
         THEN [compliance_status |-> "warning", severity |-> "medium"]
         ELSE [compliance_status |-> "compliant", severity |-> "low"]

\* ComplianceStatus with a fault: only critical PII makes a text non-compliant
\* and any other PII passes as compliant
ComplianceStatusLax(pii_detected) ==
    IF \E i \in 1..Len(pii_detected) : pii_detected[i].severity = "critical"
    THEN [compliance_status |-> "non_compliant", severity |-> "high"]
    ELSE [compliance_status |-> "compliant", severity |-> "low"]

\* security.py:177-186
ComplianceStatus(pii_detected) ==
    IF \E i \in 1..Len(pii_detected) :
           pii_detected[i].severity \in {"high", "critical"}
    THEN [compliance_status |-> "non_compliant", severity |-> "high"]
    ELSE IF pii_detected # <<>>
         THEN [compliance_status |-> "warning", severity |-> "medium"]
         ELSE [compliance_status |-> "compliant", severity |-> "low"]

\* sum(pii['count'] for pii in pii_detected)
RECURSIVE SumCounts(_)
SumCounts(pii_detected) ==
    IF pii_detected = <<>> THEN 0
    ELSE Head(pii_detected).count + SumCounts(Tail(pii_detected))

\* [pii['type'] for pii in pii_detected]
TypesOf(pii_detected) == [i \in 1..Len(pii_detected) |-> pii_detected[i].type]

\* LogThreatsOf with a fault: an event is logged whether or not a pattern
\* matched
LogThreatsAlways(operation, request_data) ==
    LET content == GetContent(request_data)
        scan == ScanThreats(1, content, <<>>, "low")
    IN DoLogSecurityEvent("threat_detection",
           <<"Detected", Len(scan.threats_detected), "security threats in", operation>>,
           scan.severity,
           [operation |-> operation, threats |-> scan.threats_detected,
            content_length |-> Len(content.text)])

\* security.py:103-140: what an analysis does to the monitor's state
LogThreatsOf(operation, request_data) ==
    LET content == GetContent(request_data)
        scan == ScanThreats(1, content, <<>>, "low")
    IN IF scan.threats_detected # <<>>
       THEN DoLogSecurityEvent("threat_detection",
                <<"Detected", Len(scan.threats_detected), "security threats in",
                  operation>>,
                scan.severity,
                [operation |-> operation, threats |-> scan.threats_detected,
                 content_length |-> Len(content.text)])
       ELSE UNCHANGED <<security_events, event_counts, severity_counts, appended_sec>>

\* DoAnalyzeRequestSecurity with a fault: the list of matches is not emptied
\* between two analyses
DoAnalyzeKeepsThreats(operation, request_data) ==
    LET content == GetContent(request_data)
        kept == IF "threats_detected" \in DOMAIN result
                THEN result.threats_detected ELSE <<>>
        scan == ScanThreats(1, content, kept, "low")
    IN /\ IF scan.threats_detected # <<>>
          THEN DoLogSecurityEvent("threat_detection",
                   <<"Detected", Len(scan.threats_detected), "security threats in",
                     operation>>,
                   scan.severity,
                   [operation |-> operation, threats |-> scan.threats_detected,
                    content_length |-> Len(content.text)])
          ELSE UNCHANGED <<security_events, event_counts, severity_counts, appended_sec>>
       /\ result' = [threats_detected |-> scan.threats_detected,
                     threat_count     |-> Len(scan.threats_detected),
                     severity         |-> scan.severity,
                     safe             |-> Len(scan.threats_detected) = 0,
                     timestamp        |-> now]

\* DoAnalyzeRequestSecurity with a fault: an event is logged for every request
DoAnalyzeAlwaysLogs(operation, request_data) ==
    LET content == GetContent(request_data)
        scan == ScanThreats(1, content, <<>>, "low")
    IN /\ DoLogSecurityEvent("threat_detection",
              <<"Detected", Len(scan.threats_detected), "security threats in", operation>>,
              scan.severity,
              [operation |-> operation, threats |-> scan.threats_detected,
               content_length |-> Len(content.text)])
       /\ result' = [threats_detected |-> scan.threats_detected,
                     threat_count     |-> Len(scan.threats_detected),
                     severity         |-> scan.severity,
                     safe             |-> Len(scan.threats_detected) = 0,
                     timestamp        |-> now]

\* security.py:92-151
DoAnalyzeRequestSecurity(operation, request_data) ==
    LET content == GetContent(request_data)
        scan == ScanThreats(1, content, <<>>, "low")
    IN /\ LogThreatsOf(operation, request_data)
       /\ result' = [threats_detected |-> scan.threats_detected,
                     threat_count     |-> Len(scan.threats_detected),
                     severity         |-> scan.severity,
                     safe             |-> Len(scan.threats_detected) = 0,
                     timestamp        |-> now]

\* DoCheckDataPrivacy with a fault: nothing is logged for a text without PII
DoCheckSkipsClean(text) ==
    LET pii_detected == ScanPII(1, text, <<>>)
        st == ComplianceStatus(pii_detected)
    IN /\ IF pii_detected # <<>>
          THEN DoLogComplianceEvent("pii_detection", st.compliance_status,
                   <<"Detected", Len(pii_detected), "types of PII in data">>,
                   [pii_types |-> TypesOf(pii_detected),
                    total_pii_count |-> SumCounts(pii_detected),
                    text_length |-> Len(text.text)])
          ELSE UNCHANGED <<compliance_logs, appended_comp>>
       /\ result' = [pii_detected        |-> pii_detected,
                     pii_types_count     |-> Len(pii_detected),
                     total_pii_instances |-> SumCounts(pii_detected),
                     compliance_status   |-> st.compliance_status,
                     severity            |-> st.severity,
                     privacy_safe        |-> Len(pii_detected) = 0,
                     timestamp           |-> now]

\* security.py:153-211
DoCheckDataPrivacy(text) ==
    LET pii_detected == ScanPII(1, text, <<>>)
        st == ComplianceStatus(pii_detected)
    IN /\ DoLogComplianceEvent("pii_detection", st.compliance_status,
              <<"Detected", Len(pii_detected), "types of PII in data">>,
              [pii_types |-> TypesOf(pii_detected),
               total_pii_count |-> SumCounts(pii_detected),
               text_length |-> Len(text.text)])
       /\ result' = [pii_detected        |-> pii_detected,
                     pii_types_count     |-> Len(pii_detected),
                     total_pii_instances |-> SumCounts(pii_detected),
                     compliance_status   |-> st.compliance_status,
                     severity            |-> st.severity,
                     privacy_safe        |-> Len(pii_detected) = 0,
                     timestamp           |-> now]

(***************************************************************************)
(* Scores and summary.                                                     *)
(***************************************************************************)
\* Deduction with a fault: a critical event costs as much as a high one
DeductionFlat(severity) ==
    CASE severity = "critical" -> 10
      [] severity = "high" -> 10
      [] severity = "medium" -> 5
      [] severity = "low" -> 1
      [] OTHER -> 0

\* Deduction with a fault: a severity outside the four counts as low
DeductionUnknownAsLow(severity) ==
    CASE severity = "critical" -> 20
      [] severity = "high" -> 10
      [] severity = "medium" -> 5
      [] OTHER -> 1

\* security.py:365-373: what one recent event takes off the score
Deduction(severity) ==
    CASE severity = "critical" -> 20
      [] severity = "high" -> 10
      [] severity = "medium" -> 5
      [] severity = "low" -> 1
      [] OTHER -> 0

\* security.py:363-373: the loop over the recent events lo..hi; the sum is
\* taken by halves, which adds the same terms
RECURSIVE Deductions(_, _, _)
Deductions(recent_events, lo, hi) ==
    IF lo > hi THEN 0
    ELSE IF lo = hi THEN Deduction(recent_events[lo].severity)
    ELSE LET mid == (lo + hi) \div 2
         IN Deductions(recent_events, lo, mid) + Deductions(recent_events, mid + 1, hi)

\* the deductions of all the recent events
TotalDeductions(recent_events) == Deductions(recent_events, 1, Len(recent_events))

\* RecentSince with a fault: every stored event counts, however old
RecentSinceAll(events, recent_cutoff) == events

\* security.py:357-360 and 390-393: the entries newer than the cutoff
RecentSince(events, recent_cutoff) ==
    SelectSeq(events, LAMBDA event : event.timestamp > recent_cutoff)

\* CalculateSecurityScore with a fault: the score is not clamped at 0
CalculateSecurityScoreNoClamp(events, t) ==
    IF events = <<>> THEN 100
    ELSE 100 - TotalDeductions(RecentSince(events, t - ScoreWindow))

\* security.py:345-376 (round(score, 1) leaves the integer score as it is)
CalculateSecurityScore(events, t) ==
    IF events = <<>> THEN 100
    ELSE Max(0, 100 - TotalDeductions(RecentSince(events, t - ScoreWindow)))

\* the number of entries of logs with the given status
CountStatus(logs, status) ==
    Len(SelectSeq(logs, LAMBDA log : log.status = status))

\* RoundTenths with a fault: the quotient is cut to the tenth below
RoundTenthsDown(n, d) == (10 * n) \div d

\* the binary exponent k of the double nearest to (2j + 1) / 20, the value
\* half-way between the tenths j and j + 1: 2^k <= (2j + 1) / 20 < 2^(k + 1)
TieExponent(j) ==
    CASE j = 0 -> -5
      [] j = 1 -> -3
      [] j \in 2..4 -> -2
      [] j \in 5..9 -> -1
      [] j \in 10..19 -> 0
      [] j \in 20..39 -> 1
      [] j \in 40..79 -> 2
      [] j \in 80..159 -> 3
      [] j \in 160..319 -> 4
      [] j \in 320..639 -> 5
      [] OTHER -> 6

\* 2^e modulo 5
PowerOfTwoMod5(e) ==
    CASE e % 4 = 0 -> 1 [] e % 4 = 1 -> 2 [] e % 4 = 2 -> 4 [] e % 4 = 3 -> 3

\* round(x, 1) for the double x nearest to (2j + 1) / 20 gives the tenth j + 1
\* (and not j).  The 53-bit significand of x is (2j + 1) * 2^(50 - k) / 5
\* rounded to an integer: when 5 divides 2j + 1 the double is the half-way
\* value itself and round() takes the even tenth; otherwise the double lies
\* below the half-way value when the remainder is 1 or 2 and above it when
\* the remainder is 3 or 4, and round() follows the double.
TieRoundsUp(j) ==
    LET rem == (((2 * j + 1) % 5) * PowerOfTwoMod5(50 - TieExponent(j))) % 5
    IN IF rem = 0 THEN j % 2 = 1 ELSE rem \in {3, 4}

\* security.py:406-412  round(n / d, 1), n / d the double nearest to the
\* quotient, as a number of tenths
RoundTenths(n, d) ==
    LET q == (10 * n) \div d
        r == (10 * n) % d
    IN IF 2 * r < d THEN q
       ELSE IF 2 * r > d THEN q + 1
       ELSE IF TieRoundsUp(q) THEN q + 1 ELSE q

\* security.py:378-412, in tenths of a point (1000 is the score 100.0)
CalculateComplianceScore(logs, t) ==
    IF logs = <<>> THEN 1000
    ELSE LET recent_logs == RecentSince(logs, t - ScoreWindow)
         IN IF recent_logs = <<>> THEN 1000
            ELSE RoundTenths(CountStatus(recent_logs, "compliant") * 100
                               + CountStatus(recent_logs, "warning") * 50
                               + CountStatus(recent_logs, "non_compliant") * 0,
                             Len(recent_logs))

\* RecentWithin with a fault: an entry exactly one hour old is counted too
RecentWithinInclusive(events, t) ==
    SelectSeq(events, LAMBDA event : t - event.timestamp <= RecentWindow)

\* security.py:284-292: the entries of the last hour
RecentWithin(events, t) ==
    SelectSeq(events, LAMBDA event : t - event.timestamp < RecentWindow)

\* SecuritySummary with a fault: the scores are those that were current
\* before the newest entry of each log was appended
SecuritySummaryStale(events, logs, ecounts, scounts, t) ==
    [total_security_events   |-> Len(events),
     recent_events_count     |-> Len(RecentWithin(events, t)),
     event_types             |-> ecounts,
     severity_distribution   |-> scounts,
     total_compliance_logs   |-> Len(logs),
     recent_compliance_count |-> Len(RecentWithin(logs, t)),
     latest_security_events  |-> IF events # <<>> THEN LastN(events, LatestCount) ELSE <<>>,
     latest_compliance_logs  |-> IF logs # <<>> THEN LastN(logs, LatestCount) ELSE <<>>,
     security_score          |->
         CalculateSecurityScore(IF events = <<>> THEN events
                                ELSE FirstN(events, Len(events) - 1), t),
     compliance_score        |->
         CalculateComplianceScore(IF logs = <<>> THEN logs
                                  ELSE FirstN(logs, Len(logs) - 1), t)]

\* SecuritySummary with a fault: the latest entries are taken from the front
\* of the logs
SecuritySummaryFromFront(events, logs, ecounts, scounts, t) ==
    [total_security_events   |-> Len(events),
     recent_events_count     |-> Len(RecentWithin(events, t)),
     event_types             |-> ecounts,
     severity_distribution   |-> scounts,
     total_compliance_logs   |-> Len(logs),
     recent_compliance_count |-> Len(RecentWithin(logs, t)),
     latest_security_events  |-> IF events # <<>> THEN FirstN(events, LatestCount) ELSE <<>>,
     latest_compliance_logs  |-> IF logs # <<>> THEN FirstN(logs, LatestCount) ELSE <<>>,
     security_score          |-> CalculateSecurityScore(events, t),
     compliance_score        |-> CalculateComplianceScore(logs, t)]

\* security.py:277-305
SecuritySummary(events, logs, ecounts, scounts, t) ==
    [total_security_events   |-> Len(events),
     recent_events_count     |-> Len(RecentWithin(events, t)),
     event_types             |-> ecounts,
     severity_distribution   |-> scounts,
     total_compliance_logs   |-> Len(logs),
     recent_compliance_count |-> Len(RecentWithin(logs, t)),
     latest_security_events  |-> IF events # <<>> THEN LastN(events, LatestCount) ELSE <<>>,
     latest_compliance_logs  |-> IF logs # <<>> THEN LastN(logs, LatestCount) ELSE <<>>,
     security_score          |-> CalculateSecurityScore(events, t),
     compliance_score        |-> CalculateComplianceScore(logs, t)]

(***************************************************************************)
(* The monitor called from one thread: specification Spec.                 *)
(***************************************************************************)
\* the severities and statuses the log calls are given; "info" and "unknown"
\* lie outside the documented enumerations and are accepted all the same
LogSeverities == Severities \cup {"info"}
LogStatuses == {"compliant", "warning", "non_compliant", "unknown"}

\* the request dicts: tracker.py:298-300 passes {'content': ...},
\* tracker.py:72-75 passes {'request_id': ..., 'timestamp': ...}
Requests ==
    {[content |-> c] : c \in Contents}
        \cup {[request_id |-> "uuid4", timestamp |-> "start_time"]}

OperationOf(request_data) ==
    IF "content" \in DOMAIN request_data THEN "user_input" ELSE "openai_completion"

\* how far the clock moves between two calls
TickSteps == {RecentWindow, ScoreWindow}

\* metrics.py:14-31: a new collector; errors is a defaultdict(int)
NewMetrics ==
    [total_requests |-> 0, successful_requests |-> 0, failed_requests |-> 0,
     latencies |-> <<>>, errors |-> EmptyDict]

\* health.py:14-29: a new health monitor, made at time t
NewHealth(t) ==
    [status |-> "healthy", last_health_check |-> t, error_count |-> 0,
     total_checks |-> 0, response_times |-> <<>>, max_response_time |-> 0]

\* security.py:15-24: a new monitor
Fresh ==
    [security_events |-> <<>>, compliance_logs |-> <<>>,
     event_counts |-> EmptyDict, severity_counts |-> EmptyDict]

\* a monitor after n calls log_security_event("test_event", "Test", "low")
\* and n calls log_compliance_event("test_compliance", "compliant", "Test"),
\* all made at time 0, n < 1000
Filled(n) ==
    [security_events |-> <<>> \o
        [i \in 1..n |-> [id |-> i, event_type |-> "test_event",
                         description |-> <<"Test">>, severity |-> "low",
                         metadata |-> EmptyDict, timestamp |-> 0]],
     compliance_logs |-> <<>> \o
        [i \in 1..n |-> [id |-> i, compliance_type |-> "test_compliance",
                         status |-> "compliant", details |-> <<"Test">>,
                         metadata |-> EmptyDict, timestamp |-> 0]],
     event_counts |-> [k \in {"test_event"} |-> n],
     severity_counts |-> [k \in {"low"} |-> n]]

\* the state the exploration starts in: a new monitor, or one whose logs
\* are nearly full
NearlyFull == Filled(MaxEvents - Headroom)

StartState(s) == IF s = "new" THEN Fresh ELSE NearlyFull

StartIn(m) ==
    /\ security_events = m.security_events
    /\ compliance_logs = m.compliance_logs
    /\ event_counts = m.event_counts
    /\ severity_counts = m.severity_counts
    /\ appended_sec = <<>>
    /\ appended_comp = <<>>
    /\ now = 0
    /\ result = None
    /\ args = None
    /\ lastOp = "init"
    /\ nops = 0
    /\ metrics = NewMetrics
    /\ health = NewHealth(0)

\* a new monitor, or one whose logs are nearly full
\* the calls are made one after the other, from one thread
NoThreads ==
    /\ threads = <<>>
    /\ snapshots = {}

Init ==
    /\ start \in {"new", "filled"}
    /\ StartIn(StartState(start))
    /\ NoThreads

Called(op) ==
    /\ lastOp' = op
    /\ nops' = nops + 1
    /\ now' = now
    /\ start' = start
    /\ UNCHANGED <<threads, snapshots, metrics, health>>

\* the calls and the passing of time, while fewer than max steps were taken
LogSecurityEventWithin(max) ==
    /\ nops < max
    /\ \E severity \in LogSeverities :
           /\ DoLogSecurityEvent("test_event", <<"Test">>, severity, EmptyDict)
           /\ args' = [event_type |-> "test_event", severity |-> severity]
    /\ result' = None
    /\ Called("log_security_event")
    /\ UNCHANGED <<compliance_logs, appended_comp>>

LogComplianceEventWithin(max) ==
    /\ nops < max
    /\ \E status \in LogStatuses :
           /\ DoLogComplianceEvent("test_compliance", status, <<"Test">>, EmptyDict)
           /\ args' = [compliance_type |-> "test_compliance", status |-> status]
    /\ result' = None
    /\ Called("log_compliance_event")
    /\ UNCHANGED <<security_events, event_counts, severity_counts, appended_sec>>

GetSecuritySummaryWithin(max) ==
    /\ nops < max
    /\ result' = SecuritySummary(security_events, compliance_logs,
                                 event_counts, severity_counts, now)
    /\ args' = None
    /\ Called("get_security_summary")
    /\ UNCHANGED <<security_events, compliance_logs, event_counts,
                   severity_counts, appended_sec, appended_comp>>

\* time passes between calls
TickWithin(max, steps) ==
    /\ nops < max
    /\ \E d \in steps : now' = now + d
    /\ nops' = nops + 1
    /\ lastOp' = "tick"
    /\ UNCHANGED <<security_events, compliance_logs, event_counts, severity_counts,
                   result, args, start, appended_sec, appended_comp,
                   threads, snapshots, metrics, health>>

LogSecurityEvent == LogSecurityEventWithin(MaxOps)

LogComplianceEvent == LogComplianceEventWithin(MaxOps)

AnalyzeRequestSecurity ==
    /\ nops < MaxOps
    /\ \E request_data \in Requests :
           /\ DoAnalyzeRequestSecurity(OperationOf(request_data), request_data)
           /\ args' = [operation |-> OperationOf(request_data),
                       request_data |-> request_data]
    /\ Called("analyze_request_security")
    /\ UNCHANGED <<compliance_logs, appended_comp>>

CheckDataPrivacy ==
    /\ nops < MaxOps
    /\ \E text \in Texts :
           /\ DoCheckDataPrivacy(text)
           /\ args' = [text |-> text]
    /\ Called("check_data_privacy")
    /\ UNCHANGED <<security_events, event_counts, severity_counts, appended_sec>>

GetSecuritySummary == GetSecuritySummaryWithin(MaxOps)

Tick == TickWithin(MaxOps, TickSteps)

Next ==
    \/ LogSecurityEvent
    \/ LogComplianceEvent
    \/ AnalyzeRequestSecurity
    \/ CheckDataPrivacy
    \/ GetSecuritySummary
    \/ Tick

Spec == Init /\ [][Next]_vars

(***************************************************************************)
(* Properties of the event logs.                                           *)
(***************************************************************************)
\* every event ever appended to a log, in order: those of the starting
\* state, then those appended since
AllAppendedSec == StartState(start).security_events \o appended_sec
AllAppendedComp == StartState(start).compliance_logs \o appended_comp

\* C1: between calls neither log holds more than 1000 entries.
C1_LogsCapped ==
    /\ Len(security_events) <= MaxEvents
    /\ Len(compliance_logs) <= MaxEvents

\* C1 witness: the security log is full and has already evicted an entry.
C1_Witness ==
    /\ Len(AllAppendedSec) > MaxEvents
    /\ Len(security_events) = MaxEvents

\* the i-th entry of a log that kept the newest of `total` appended events has
\* the id of its append: ids count the appends, whatever was evicted
IdsCountAppends(log, total) ==
    \A i \in 1..Len(log) : log[i].id = total - Len(log) + i

\* C2: every append assigns the largest id ever assigned plus one, so the ids
\* of a log are those of its appends, strictly increasing and never reused.
C2_IdsNeverReused ==
    /\ IdsCountAppends(security_events, Len(AllAppendedSec))
    /\ IdsCountAppends(compliance_logs, Len(AllAppendedComp))

\* log holds the last Min(Len(history), 1000) entries of history, in order
HoldsNewestOf(log, history) ==
    LET n == Len(history)
        kept == Min(n, MaxEvents)
    IN log = SubSeq(history, n - kept + 1, n)

\* C3: after n appends a log holds exactly the last min(n, 1000) appended
\* events in append order, and a log call returns normally (None), full or not.
C3_FifoEviction ==
    /\ HoldsNewestOf(security_events, AllAppendedSec)
    /\ HoldsNewestOf(compliance_logs, AllAppendedComp)
    /\ lastOp \in {"log_security_event", "log_compliance_event"} => result = None

\* C3 witness: a log call on a full compliance log has evicted the oldest entry.
C3_Witness ==
    /\ lastOp = "log_compliance_event"
    /\ Len(AllAppendedComp) > MaxEvents
    /\ Len(compliance_logs) = MaxEvents
    /\ compliance_logs[1] = AllAppendedComp[Len(AllAppendedComp) - MaxEvents + 1]

(***************************************************************************)
(* Properties of the analyses.                                             *)
(***************************************************************************)
\* after is before with exactly the event e put at its end, less whatever
\* was evicted from its front
AppendedOne(before, after, e) ==
    LET all == Append(before, e)
    IN /\ Len(after) >= 1
       /\ Len(after) <= Len(all)
       /\ after = SubSeq(all, Len(all) - Len(after) + 1, Len(all))

\* C6: analyze_request_security appends exactly one 'threat_detection' event
\* with the aggregated severity and the matches when threat_count > 0, and
\* otherwise leaves the security log alone and reports safe.
C6_AnalyzeLogsIffThreats ==
    [][lastOp' = "analyze_request_security" =>
          /\ result'.threat_count = Len(result'.threats_detected)
          /\ result'.safe = (result'.threat_count = 0)
          /\ IF result'.threat_count > 0
             THEN /\ Len(appended_sec') = Len(appended_sec) + 1
                  /\ LET e == appended_sec'[Len(appended_sec')]
                     IN /\ appended_sec' = Append(appended_sec, e)
                        /\ AppendedOne(security_events, security_events', e)
                        /\ e.event_type = "threat_detection"
                        /\ e.severity = result'.severity
                        /\ e.metadata.threats = result'.threats_detected
             ELSE /\ security_events' = security_events
                  /\ appended_sec' = appended_sec]_vars

\* C6 witness: an analysis that found several threats has logged its event
\* on a full security log.
C6_Witness ==
    /\ lastOp = "analyze_request_security"
    /\ result.threat_count > 1
    /\ Len(AllAppendedSec) > MaxEvents
    /\ security_events[Len(security_events)].event_type = "threat_detection"
    /\ security_events[Len(security_events)].severity = result.severity
    /\ security_events[Len(security_events)].metadata.threats = result.threats_detected

\* C7: every check_data_privacy call appends exactly one 'pii_detection'
\* compliance event carrying the returned status and the returned total count.
C7_CheckAlwaysLogs ==
    [][lastOp' = "check_data_privacy" =>
          /\ Len(appended_comp') = Len(appended_comp) + 1
          /\ LET e == appended_comp'[Len(appended_comp')]
             IN /\ appended_comp' = Append(appended_comp, e)
                /\ AppendedOne(compliance_logs, compliance_logs', e)
                /\ e.compliance_type = "pii_detection"
                /\ e.status = result'.compliance_status
                /\ e.metadata.total_pii_count = result'.total_pii_instances]_vars

\* C7 witness: a text without PII and then a text with PII have each
\* logged their event.
C7_Witness ==
    /\ lastOp = "check_data_privacy"
    /\ Len(appended_comp) = 2
    /\ appended_comp[1].compliance_type = "pii_detection"
    /\ appended_comp[1].status = "compliant"
    /\ appended_comp[1].metadata.total_pii_count = 0
    /\ appended_comp[2].status = "non_compliant"
    /\ result.total_pii_instances = 2

\* the values the PII patterns matched in a text
RawMatches(text) ==
    UNION {{text.found[t][k] : k \in 1..Len(text.found[t])} : t \in PIITypeSet}

\* C13: neither the result of check_data_privacy nor the compliance event it
\* logs holds a raw matched value, and the result holds at most 5 samples
\* per PII type.
C13_NoRawValueLeaves ==
    lastOp = "check_data_privacy" =>
        LET raw == RawMatches(args.text)
            e == compliance_logs[Len(compliance_logs)]
        IN /\ \A i \in 1..Len(result.pii_detected) :
                  LET samples == result.pii_detected[i].matches
                  IN /\ Len(samples) <= MaxSamples
                     /\ \A k \in 1..Len(samples) : samples[k] \notin raw
           /\ \A k \in 1..Len(e.metadata.pii_types) : e.metadata.pii_types[k] \notin raw

\* an event less its id and its timestamp
Anonymous(e) == [e EXCEPT !.id = 0, !.timestamp = 0]

\* C15: an analysis called again with the operation and the content of the
\* analysis before it, whatever time has passed, returns the same matches in
\* the same order and the same severity, the two results differing in the
\* timestamp at most and the two logged events in id and timestamp at most.
C15_AnalyzeIsIdempotent ==
    [][(/\ "operation" \in DOMAIN args
        /\ lastOp' = "analyze_request_security"
        /\ args' = args)
          => /\ result'.threats_detected = result.threats_detected
             /\ result'.severity = result.severity
             /\ [result' EXCEPT !.timestamp = 0] = [result EXCEPT !.timestamp = 0]
             /\ result.threat_count > 0 =>
                    /\ Len(appended_sec') = Len(appended_sec) + 1
                    /\ Anonymous(appended_sec'[Len(appended_sec')])
                           = Anonymous(appended_sec[Len(appended_sec)])]_vars

\* C15 witness: the same content was analysed twice, an hour or more apart,
\* and the two logged events differ in id and timestamp only.
C15_Witness ==
    /\ lastOp = "analyze_request_security"
    /\ Len(appended_sec) = 2
    /\ appended_sec[1].event_type = "threat_detection"
    /\ appended_sec[2].event_type = "threat_detection"
    /\ Anonymous(appended_sec[1]) = Anonymous(appended_sec[2])
    /\ appended_sec[1].id # appended_sec[2].id
    /\ appended_sec[1].timestamp < appended_sec[2].timestamp
    /\ result.threats_detected = appended_sec[1].metadata.threats
    /\ result.threat_count > 1

\* the request carries no content, or an empty one
NoContent(request_data) ==
    \/ "content" \notin DOMAIN request_data
    \/ request_data["content"].text = ""

\* C16: an analysis of a request without content or with empty content
\* reports safe, no threat and severity low and leaves the security log
\* alone; a privacy check of the empty text reports privacy_safe, compliant
\* and severity low.
C16_EmptyInputIsSafe ==
    [][/\ (lastOp' = "analyze_request_security" /\ NoContent(args'.request_data))
            => /\ result'.safe
               /\ result'.threat_count = 0
               /\ result'.threats_detected = <<>>
               /\ result'.severity = "low"
               /\ security_events' = security_events
               /\ appended_sec' = appended_sec
       /\ (lastOp' = "check_data_privacy" /\ args'.text.text = "")
            => /\ result'.privacy_safe
               /\ result'.pii_types_count = 0
               /\ result'.compliance_status = "compliant"
               /\ result'.severity = "low"]_vars

\* C16 witness: a request without 'content' key was analysed after the
\* empty text was checked, and both were found clean.
C16_Witness ==
    /\ lastOp = "analyze_request_security"
    /\ "content" \notin DOMAIN args.request_data
    /\ result.safe
    /\ result.severity = "low"
    /\ appended_sec = <<>>
    /\ Len(appended_comp) = 1
    /\ appended_comp[1].compliance_type = "pii_detection"
    /\ appended_comp[1].status = "compliant"
    /\ appended_comp[1].metadata.text_length = 0

\* the entries of the log before a step are, unchanged and in their order,
\* the first entries of the log after it, but for the oldest one, which a
\* step that appends to a full log drops
KeptFrom(before, after) ==
    \/ /\ Len(after) >= Len(before)
       /\ SubSeq(after, 1, Len(before)) = before
    \/ /\ Len(before) = MaxEvents
       /\ Len(after) = MaxEvents
       /\ SubSeq(after, 1, MaxEvents - 1) = SubSeq(before, 2, MaxEvents)

\* C24: no call changes an event that is in a log: after every step the
\* events logged before are in the log as they were, id, type, severity or
\* status, metadata and timestamp, except the oldest when a full log evicts it.
C24_EventsAreImmutable ==
    [][/\ KeptFrom(security_events, security_events')
       /\ KeptFrom(compliance_logs, compliance_logs')]_vars

\* C24 witness: after an analysis had logged a threat, a privacy check
\* appended to the full compliance log, which lost its oldest entry and kept
\* the others as they were.
C24_Witness ==
    /\ lastOp = "check_data_privacy"
    /\ Len(compliance_logs) = MaxEvents
    /\ Len(appended_comp) = Headroom + 1
    /\ Len(appended_sec) = 1
    /\ security_events[Len(security_events)].event_type = "threat_detection"
    /\ compliance_logs[MaxEvents].compliance_type = "pii_detection"
    /\ compliance_logs[1] = NearlyFull.compliance_logs[2]

(***************************************************************************)
(* Properties of the scores.                                               *)
(***************************************************************************)
\* the number of security events of the last 24 hours with severity s
RecentOf(s) ==
    Len(SelectSeq(security_events,
                  LAMBDA e : now - e.timestamp < ScoreWindow /\ e.severity = s))

\* critical 20, high 10, medium 5, low 1 for each event of the last 24 hours
RecentDeductions ==
    20 * RecentOf("critical") + 10 * RecentOf("high")
        + 5 * RecentOf("medium") + RecentOf("low")

\* C10: the security score of a summary is 100 less the deductions of the
\* events of the last 24 hours, not below 0, and so lies within 0..100.
C10_SecurityScore ==
    lastOp = "get_security_summary" =>
        /\ result.security_score =
               (IF RecentDeductions > 100 THEN 0 ELSE 100 - RecentDeductions)
        /\ result.security_score \in 0..100

\* C10 witness: a summary over a log holding events older than 24 hours and
\* a recent one, whose score is lowered by the recent one alone.
C10_Witness ==
    /\ lastOp = "get_security_summary"
    /\ \E i \in 1..Len(security_events) :
           now - security_events[i].timestamp >= ScoreWindow
    /\ RecentDeductions > 0
    /\ result.security_score = 100 - RecentDeductions
    /\ result.security_score > 0

\* the last Min(5, Len(log)) entries of a log, in append order
LatestOf(log) == SubSeq(log, Len(log) - Min(LatestCount, Len(log)) + 1, Len(log))

\* C20: a summary reports the lengths of the two logs as totals, the numbers
\* of entries younger than one hour as recent counts, never above the
\* totals, and the last min(5, length) entries of each log, in append order,
\* as latest entries.
C20_SummaryCountsAndLatest ==
    lastOp = "get_security_summary" =>
        /\ result.total_security_events = Len(security_events)
        /\ result.total_compliance_logs = Len(compliance_logs)
        /\ result.recent_events_count =
               Len(SelectSeq(security_events, LAMBDA e : now - e.timestamp < RecentWindow))
        /\ result.recent_compliance_count =
               Len(SelectSeq(compliance_logs, LAMBDA e : now - e.timestamp < RecentWindow))
        /\ result.recent_events_count <= result.total_security_events
        /\ result.recent_compliance_count <= result.total_compliance_logs
        /\ result.latest_security_events = LatestOf(security_events)
        /\ result.latest_compliance_logs = LatestOf(compliance_logs)

\* C20 witness: a summary over a full security log whose last event alone is
\* younger than one hour, and over a compliance log of 999 entries.
C20_Witness ==
    /\ lastOp = "get_security_summary"
    /\ result.total_security_events = MaxEvents
    /\ result.total_compliance_logs = MaxEvents - Headroom
    /\ result.recent_events_count = 1
    /\ result.recent_compliance_count = 0
    /\ Len(result.latest_security_events) = LatestCount
    /\ result.latest_security_events[LatestCount] = security_events[MaxEvents]
    /\ result.latest_security_events[1] = security_events[MaxEvents - LatestCount + 1]

\* the sum of the counts of a histogram
RECURSIVE SumOfCounts(_)
SumOfCounts(counts) ==
    IF DOMAIN counts = {} THEN 0
    ELSE LET k == CHOOSE key \in DOMAIN counts : TRUE
         IN counts[k] + SumOfCounts([j \in DOMAIN counts \ {k} |-> counts[j]])

\* the number of security events logged since the monitor was made
EverLogged == Len(StartState(start).security_events) + Len(appended_sec)

\* C26: the counts by severity and the counts by event type both add up to
\* the number of security events ever logged, in the monitor and in a
\* summary, and that number is the length of the log exactly as long as
\* nothing was evicted.
C26_HistogramsCountEveryAppend ==
    /\ SumOfCounts(severity_counts) = EverLogged
    /\ SumOfCounts(event_counts) = EverLogged
    /\ (Len(security_events) = EverLogged) <=> (EverLogged <= MaxEvents)
    /\ lastOp = "get_security_summary" =>
           /\ SumOfCounts(result.severity_distribution) = EverLogged
           /\ SumOfCounts(result.event_types) = EverLogged
           /\ (result.total_security_events = EverLogged) <=> (EverLogged <= MaxEvents)

\* C26 witness: a summary taken after a threat evicted the oldest event of a
\* full log counts one event more in each histogram than the log holds.
C26_Witness ==
    /\ lastOp = "get_security_summary"
    /\ result.total_security_events = MaxEvents
    /\ SumOfCounts(result.severity_distribution) = MaxEvents + 1
    /\ SumOfCounts(result.event_types) = MaxEvents + 1
    /\ "threat_detection" \in DOMAIN result.event_types
    /\ Len(appended_sec) = Headroom + 1

(***************************************************************************)
(* The analyses as functions of what the patterns match: specifications    *)
(* SpecThreat and SpecPrivacy.  The input is any string, known only by the *)
(* patterns that match it, and the analysis runs on a new monitor.         *)
(***************************************************************************)
\* the sets of at most k threat patterns
RECURSIVE HitSetsUpTo(_)
HitSetsUpTo(k) ==
    IF k = 0 THEN {{}}
    ELSE LET smaller == HitSetsUpTo(k - 1)
         IN smaller \cup {h \cup {r} : h \in smaller, r \in ThreatRuleSet}

\* k matches of a PII pattern
Samples(k) == [i \in 1..k |-> "match"]

\* what re.findall may return for the six PII patterns, at most MaxFound each
FoundSets == [PIITypeSet -> {Samples(k) : k \in 0..MaxFound}]

InitNew ==
    /\ start = "new"
    /\ StartIn(Fresh)
    /\ NoThreads

AnalyzeAny ==
    /\ nops = 0
    /\ \E hits \in HitSetsUpTo(MaxHits) :
           LET request_data == [content |-> Content("*", hits)]
           IN /\ DoAnalyzeRequestSecurity("user_input", request_data)
              /\ args' = [operation |-> "user_input", request_data |-> request_data]
    /\ Called("analyze_request_security")
    /\ UNCHANGED <<compliance_logs, appended_comp>>

SpecThreat == InitNew /\ [][AnalyzeAny]_vars

CheckAny ==
    /\ nops = 0
    /\ \E found \in FoundSets :
           /\ DoCheckDataPrivacy(Text("*", found))
           /\ args' = [text |-> Text("*", found)]
    /\ Called("check_data_privacy")
    /\ UNCHANGED <<security_events, event_counts, severity_counts, appended_sec>>

SpecPrivacy == InitNew /\ [][CheckAny]_vars

\* the order low < medium < high < critical
SeverityRank(s) ==
    CASE s = "low" -> 0 [] s = "medium" -> 1 [] s = "high" -> 2 [] s = "critical" -> 3

\* the greatest of a set of severities, "low" for the empty set
MaxSeverity(sevs) ==
    IF sevs = {} THEN "low"
    ELSE CHOOSE s \in sevs : \A u \in sevs : SeverityRank(u) <= SeverityRank(s)

\* C8: the severity returned by analyze_request_security is the greatest
\* severity among the matches, all the matching patterns being reported, and
\* "low" without a match.
C8_SeverityIsMax ==
    lastOp = "analyze_request_security" =>
        LET td == result.threats_detected
        IN /\ {td[i].pattern : i \in 1..Len(td)} = GetContent(args.request_data).hits
           /\ result.severity = MaxSeverity({td[i].severity : i \in 1..Len(td)})

\* C8 witness: a critical match was found before a high one, and the
\* severity returned is critical.
C8_Witness ==
    /\ lastOp = "analyze_request_security"
    /\ result.threat_count = 2
    /\ result.threats_detected[1].severity = "critical"
    /\ result.threats_detected[2].severity = "high"
    /\ result.severity = "critical"

\* the PII types rated high or critical by the catalog (ssn and credit_card
\* are critical, no type is high)
GravePII == {"ssn", "credit_card"}

\* C9: the status returned by check_data_privacy is non_compliant when a type
\* rated high or critical was found, else warning when any type was found,
\* else compliant; the severity is high, medium, low accordingly; privacy_safe
\* holds exactly for compliant.
C9_ComplianceStatus ==
    lastOp = "check_data_privacy" =>
        LET found == {t \in PIITypeSet : args.text.found[t] # <<>>}
            status == IF found \cap GravePII # {} THEN "non_compliant"
                      ELSE IF found # {} THEN "warning"
                      ELSE "compliant"
        IN /\ result.compliance_status = status
           /\ result.severity = (CASE status = "non_compliant" -> "high"
                                   [] status = "warning" -> "medium"
                                   [] status = "compliant" -> "low")
           /\ result.privacy_safe = (status = "compliant")

\* C9 witness: an SSN was found together with PII of lower rating, and the
\* text is non-compliant.
C9_Witness ==
    /\ lastOp = "check_data_privacy"
    /\ args.text.found["ssn"] # <<>>
    /\ args.text.found["url"] # <<>>
    /\ args.text.found["email"] # <<>>
    /\ result.compliance_status = "non_compliant"
    /\ result.severity = "high"
    /\ ~result.privacy_safe

(***************************************************************************)
(* The scores and the time windows over short logs: specification          *)
(* SpecScores.  A new monitor takes log calls of every severity and        *)
(* status, and between two calls the clock moves to one second before the  *)
(* end of a window, to its end, or past it.                                *)
(***************************************************************************)
MaxScoreOps == 4

WindowSteps ==
    {RecentWindow - 1, RecentWindow, ScoreWindow - 1, ScoreWindow, ScoreWindow + 1}

NextScores ==
    \/ LogSecurityEventWithin(MaxScoreOps)
    \/ LogComplianceEventWithin(MaxScoreOps)
    \/ GetSecuritySummaryWithin(MaxScoreOps)
    \/ TickWithin(MaxScoreOps, WindowSteps)

SpecScores == InitNew /\ [][NextScores]_vars

\* the entries of a log younger than window seconds
Younger(log, window) == SelectSeq(log, LAMBDA e : now - e.timestamp < window)

\* the entries of a log whose timestamp is now - window or later
NotOlder(log, window) == SelectSeq(log, LAMBDA e : e.timestamp >= now - window)

\* the sum of the weights compliant 100, warning 50, any other status 0
WeightSum(logs) ==
    100 * Len(SelectSeq(logs, LAMBDA e : e.status = "compliant"))
        + 50 * Len(SelectSeq(logs, LAMBDA e : e.status = "warning"))

\* score, a number of tenths, is a tenth nearest to total / count
NearestTenth(score, total, count) ==
    LET diff == 10 * total - score * count
    IN 2 * (IF diff < 0 THEN -diff ELSE diff) <= count

\* C11 as stated: the compliance score is the mean of the weights of the
\* compliance events of the last 24 hours, and lies within 0..100.
C11_ComplianceScoreIsMean ==
    lastOp = "get_security_summary" =>
        LET recent == Younger(compliance_logs, ScoreWindow)
        IN /\ result.compliance_score * Len(recent) = 10 * WeightSum(recent)
           /\ result.compliance_score \in 0..1000

\* C11 amended: the compliance score is 100 when no compliance event is
\* younger than 24 hours, and otherwise the mean of the weights (compliant
\* 100, warning 50, any other status 0) of the events younger than 24 hours
\* rounded to one decimal place; it lies within 0..100.
C11_ComplianceScoreIsRoundedMean ==
    lastOp = "get_security_summary" =>
        LET recent == Younger(compliance_logs, ScoreWindow)
        IN /\ IF recent = <<>> THEN result.compliance_score = 1000
              ELSE NearestTenth(result.compliance_score, WeightSum(recent), Len(recent))
           /\ result.compliance_score \in 0..1000

\* C11 witness: a summary over two compliant events and a warning, whose mean
\* 83.33... is reported as 83.3.
C11_Witness ==
    /\ lastOp = "get_security_summary"
    /\ Len(Younger(compliance_logs, ScoreWindow)) = 3
    /\ WeightSum(compliance_logs) = 250
    /\ result.compliance_score = 833

\* C12: when every security event and every compliance event held is 24
\* hours old or older, both scores are 100, whatever the severities and
\* statuses of the events held.
C12_ScoresResetAfterWindow ==
    (/\ lastOp = "get_security_summary"
     /\ Younger(security_events, ScoreWindow) = <<>>
     /\ Younger(compliance_logs, ScoreWindow) = <<>>)
        => /\ result.security_score = 100
           /\ result.compliance_score = 1000

\* C12 witness: a summary reports 100 twice over a log holding a critical
\* event and a log holding a non-compliant event, both older than 24 hours.
C12_Witness ==
    /\ lastOp = "get_security_summary"
    /\ \E i \in 1..Len(security_events) :
           /\ security_events[i].severity = "critical"
           /\ now - security_events[i].timestamp > ScoreWindow
    /\ \E i \in 1..Len(compliance_logs) :
           /\ compliance_logs[i].status = "non_compliant"
           /\ now - compliance_logs[i].timestamp > ScoreWindow
    /\ Younger(security_events, ScoreWindow) = <<>>
    /\ Younger(compliance_logs, ScoreWindow) = <<>>
    /\ result.security_score = 100
    /\ result.compliance_score = 1000

\* critical 20, high 10, medium 5, low 1 for each of the events
DeductionsOf(events) ==
    20 * Len(SelectSeq(events, LAMBDA e : e.severity = "critical"))
        + 10 * Len(SelectSeq(events, LAMBDA e : e.severity = "high"))
        + 5 * Len(SelectSeq(events, LAMBDA e : e.severity = "medium"))
        + Len(SelectSeq(events, LAMBDA e : e.severity = "low"))

\* the summary is the one computed from these selections of the two logs
SummaryOver(recent_events, recent_compliance, scored_events, scored_logs) ==
    /\ result.recent_events_count = Len(recent_events)
    /\ result.recent_compliance_count = Len(recent_compliance)
    /\ result.security_score =
           (IF DeductionsOf(scored_events) > 100 THEN 0
            ELSE 100 - DeductionsOf(scored_events))
    /\ IF scored_logs = <<>> THEN result.compliance_score = 1000
       ELSE NearestTenth(result.compliance_score, WeightSum(scored_logs),
                         Len(scored_logs))

\* the entries of the log younger than window seconds are its last entries
YoungerIsSuffix(log, window) ==
    \A i, j \in 1..Len(log) :
        (i < j /\ now - log[i].timestamp < window) => now - log[j].timestamp < window

\* C19 as stated: the recent counts of a summary and its two scores are taken
\* over the entries whose timestamp is now - window or later, the entry
\* stamped now - window included.
C19_WindowsIncludeBoundary ==
    lastOp = "get_security_summary" =>
        SummaryOver(NotOlder(security_events, RecentWindow),
                    NotOlder(compliance_logs, RecentWindow),
                    NotOlder(security_events, ScoreWindow),
                    NotOlder(compliance_logs, ScoreWindow))

\* C19 amended: the recent counts of a summary and its two scores are taken
\* over exactly the entries whose timestamp is later than now - window, the
\* entry stamped now - window left out, and in a log whose timestamps never
\* decrease these entries are the last ones of the log.
C19_WindowsExcludeBoundary ==
    lastOp = "get_security_summary" =>
        /\ SummaryOver(Younger(security_events, RecentWindow),
                       Younger(compliance_logs, RecentWindow),
                       Younger(security_events, ScoreWindow),
                       Younger(compliance_logs, ScoreWindow))
        /\ YoungerIsSuffix(security_events, RecentWindow)
        /\ YoungerIsSuffix(security_events, ScoreWindow)
        /\ YoungerIsSuffix(compliance_logs, RecentWindow)
        /\ YoungerIsSuffix(compliance_logs, ScoreWindow)

\* C19 witness: a summary over a critical event stamped exactly 24 hours ago
\* and a high one stamped now counts and deducts the second alone.
C19_Witness ==
    /\ lastOp = "get_security_summary"
    /\ Len(security_events) = 2
    /\ security_events[1].severity = "critical"
    /\ security_events[1].timestamp = now - ScoreWindow
    /\ security_events[2].severity = "high"
    /\ security_events[2].timestamp = now
    /\ result.recent_events_count = 1
    /\ result.security_score = 90

\* the security score read off the log as it stands
ScoreOfLog ==
    100 - Min(100, DeductionsOf(Younger(security_events, ScoreWindow)))

\* score is the compliance score read off the log as it stands
IsScoreOfLogs(score) ==
    LET scored == Younger(compliance_logs, ScoreWindow)
    IN IF scored = <<>> THEN score = 1000
       ELSE NearestTenth(score, WeightSum(scored), Len(scored))

\* C25: a summary changes neither log nor histogram; a second summary taken
\* right after one reports the same two scores; a summary taken right after
\* an append reports the scores of the log with the new entry in it.
C25_SummaryIsPureRead ==
    [][lastOp' = "get_security_summary" =>
          /\ security_events' = security_events
          /\ compliance_logs' = compliance_logs
          /\ event_counts' = event_counts
          /\ severity_counts' = severity_counts
          /\ lastOp = "get_security_summary" =>
                 /\ result'.security_score = result.security_score
                 /\ result'.compliance_score = result.compliance_score
          /\ lastOp = "log_security_event" =>
                 /\ security_events[Len(security_events)].severity = args.severity
                 /\ now - security_events[Len(security_events)].timestamp = 0
                 /\ result'.security_score = ScoreOfLog
          /\ lastOp = "log_compliance_event" =>
                 /\ compliance_logs[Len(compliance_logs)].status = args.status
                 /\ now - compliance_logs[Len(compliance_logs)].timestamp = 0
                 /\ IsScoreOfLogs(result'.compliance_score)]_vars

\* C25 witness: a summary taken right after a critical event was appended
\* to a log that a summary had found clean just before reports 80.
C25_Witness ==
    /\ lastOp = "get_security_summary"
    /\ Len(security_events) = 1
    /\ security_events[1].severity = "critical"
    /\ security_events[1].timestamp = now
    /\ nops = 3
    /\ result.security_score = 80
    /\ result.total_security_events = 1

\* the events whose severity is one of low, medium, high, critical
KnownSeverity(events) ==
    SelectSeq(events, LAMBDA e : e.severity \in {"low", "medium", "high", "critical"})

\* the logs with every status outside compliant, warning, non_compliant
\* read as non_compliant
UnknownAsNonCompliant(logs) ==
    [i \in 1..Len(logs) |->
        IF logs[i].status \in {"compliant", "warning", "non_compliant"}
        THEN logs[i]
        ELSE [logs[i] EXCEPT !.status = "non_compliant"]]

\* C28: the log calls take a severity or status outside the enumerations
\* and store it; in a summary such a security event deducts nothing (the
\* score is that of the log without it) and such a compliance event weighs
\* as a non_compliant one (the score is that of the log with its status read
\* as non_compliant).
C28_UnknownValuesWeighNothing ==
    /\ lastOp = "log_security_event" =>
           /\ result = None
           /\ security_events[Len(security_events)].severity = args.severity
    /\ lastOp = "log_compliance_event" =>
           /\ result = None
           /\ compliance_logs[Len(compliance_logs)].status = args.status
    /\ lastOp = "get_security_summary" =>
           /\ result.security_score =
                  CalculateSecurityScore(KnownSeverity(security_events), now)
           /\ result.compliance_score =
                  CalculateComplianceScore(UnknownAsNonCompliant(compliance_logs), now)

\* C28 witness: a summary over one recent event of severity 'info' and two
\* recent compliance events, one of status 'unknown' and one compliant,
\* reports 100 and 50.0.
C28_Witness ==
    /\ lastOp = "get_security_summary"
    /\ Len(security_events) = 1
    /\ security_events[1].severity = "info"
    /\ now - security_events[1].timestamp < ScoreWindow
    /\ Len(compliance_logs) = 2
    /\ {compliance_logs[1].status, compliance_logs[2].status} = {"unknown", "compliant"}
    /\ now - compliance_logs[1].timestamp < ScoreWindow
    /\ result.security_score = 100
    /\ result.compliance_score = 500

(***************************************************************************)
(* Masking (src/SDK-HR/python/hr_agent_sdk/security.py): specification     *)
(* SpecMask.  A string is the sequence of its characters, and              *)
(* _mask_sensitive_data is applied to every string of at most MaxLen       *)
(* characters of a small alphabet, the star included.                      *)
(***************************************************************************)
MaxLen == 6

\* the longest string masked whole
MaskAllUpTo == 4

\* the characters kept at each end of a longer string
KeptAtEnd == 2

Alphabet == {"a", "b", "*"}

Strings(n) == UNION {[1..k -> Alphabet] : k \in 0..n}

\* "*" * n
Stars(n) == [i \in 1..n |-> "*"]

\* MaskSensitiveData with a fault: a string of exactly 4 characters takes the
\* branch of the longer strings
MaskSensitiveDataOffByOne(data) ==
    IF Len(data) < MaskAllUpTo THEN Stars(Len(data))
    ELSE SubSeq(data, 1, KeptAtEnd) \o Stars(Len(data) - MaskAllUpTo)
             \o SubSeq(data, Len(data) - KeptAtEnd + 1, Len(data))

\* SDK-HR security.py:154-160
MaskSensitiveData(data) ==
    IF Len(data) <= MaskAllUpTo THEN Stars(Len(data))
    ELSE SubSeq(data, 1, KeptAtEnd) \o Stars(Len(data) - MaskAllUpTo)
             \o SubSeq(data, Len(data) - KeptAtEnd + 1, Len(data))

MaskAny ==
    /\ nops = 0
    /\ \E data \in Strings(MaxLen) :
           /\ result' = MaskSensitiveData(data)
           /\ args' = [data |-> data]
    /\ Called("_mask_sensitive_data")
    /\ UNCHANGED <<security_events, compliance_logs, event_counts,
                   severity_counts, appended_sec, appended_comp>>

SpecMask == InitNew /\ [][MaskAny]_vars

\* C14: the masked form of d has the length of d; when d has more than 4
\* characters it shows the first 2 and the last 2 characters of d and a star
\* in every other place, and otherwise a star in every place.
C14_MaskKeepsLengthAndEnds ==
    lastOp = "_mask_sensitive_data" =>
        LET d == args.data
            n == Len(d)
        IN /\ Len(result) = n
           /\ \A i \in 1..n :
                  result[i] = (IF n > 4 /\ (i <= 2 \/ i > n - 2) THEN d[i] ELSE "*")

\* C14 witness: a string of 6 characters without a star keeps its two
\* characters at each end around two stars.
C14_Witness ==
    /\ lastOp = "_mask_sensitive_data"
    /\ args.data = <<"a", "b", "a", "a", "b", "a">>
    /\ result = <<"a", "b", "*", "*", "b", "a">>

(***************************************************************************)
(* Two patterns character by character: specifications SpecDropTable and   *)
(* SpecSSN.  The input is a string given by its characters, the phrase     *)
(* under study with at most MaxAround characters before and after it; the  *)
(* pattern under study is matched on the characters, and what the other    *)
(* patterns find in the input is left open.                                *)
(***************************************************************************)
MaxAround == 1

\* str.lower() of one character, for the letters in use
Lower(c) ==
    CASE c = "D" -> "d" [] c = "R" -> "r" [] c = "O" -> "o" [] c = "P" -> "p"
      [] c = "T" -> "t" [] c = "A" -> "a" [] c = "B" -> "b" [] c = "L" -> "l"
      [] c = "E" -> "e" [] OTHER -> c

\* str.upper() of one character, for the letters in use
Upper(c) ==
    CASE c = "d" -> "D" [] c = "r" -> "R" [] c = "o" -> "O" [] c = "p" -> "P"
      [] c = "t" -> "T" [] c = "a" -> "A" [] c = "b" -> "B" [] c = "l" -> "L"
      [] c = "e" -> "E" [] OTHER -> c

\* \s
IsSpace(c) == c \in {" ", "\t", "\n"}

\* \d
IsDigit(c) == c \in {"0", "1", "2", "3", "4", "5", "6", "7", "8", "9"}

\* \w
IsWord(c) == IsDigit(c) \/ c = "_" \/ Lower(c) \in {"a", "b", "d", "e", "l", "o", "p", "r", "t", "x"}

\* the literal word stands at place i of chars, letter case ignored: (?i)
WordAt(word, chars, i) ==
    /\ i >= 1
    /\ i + Len(word) - 1 <= Len(chars)
    /\ \A k \in 1..Len(word) : Lower(chars[i + k - 1]) = word[k]

\* the literal word stands at place i of chars, in lower case only
WordAtSameCase(word, chars, i) ==
    /\ i >= 1
    /\ i + Len(word) - 1 <= Len(chars)
    /\ \A k \in 1..Len(word) : chars[i + k - 1] = word[k]

\* SearchDropTable with a fault: the pattern lacks (?i)
SearchDropTableSameCase(chars) ==
    \E i \in 1..Len(chars) : \E j \in (i + 5)..Len(chars) :
        /\ WordAtSameCase(<<"d", "r", "o", "p">>, chars, i)
        /\ \A k \in (i + 4)..(j - 1) : IsSpace(chars[k])
        /\ WordAtSameCase(<<"t", "a", "b", "l", "e">>, chars, j)

\* security.py:36, :113  re.search(r"(?i)(drop\s+table)", content)
SearchDropTable(chars) ==
    \E i \in 1..Len(chars) : \E j \in (i + 5)..Len(chars) :
        /\ WordAt(<<"d", "r", "o", "p">>, chars, i)
        /\ \A k \in (i + 4)..(j - 1) : IsSpace(chars[k])
        /\ WordAt(<<"t", "a", "b", "l", "e">>, chars, j)

DropTableRule == <<"sql_injection", 2>>

\* the content with these characters, given what the other patterns find in it
ContentOfChars(chars, others) ==
    Content(chars, (others \ {DropTableRule})
                       \cup (IF SearchDropTable(chars) THEN {DropTableRule} ELSE {}))

\* the spellings of a word in upper and lower case letters
CaseVariants(word) ==
    {[i \in 1..Len(word) |-> IF i \in S THEN Upper(word[i]) ELSE word[i]] :
        S \in SUBSET (1..Len(word))}

\* the strings of at most n of the given characters
Around(chars, n) == UNION {[1..k -> chars] : k \in 0..n}

\* 'drop' and 'table' in any letter case with one space or nothing between
\* them, inside other characters
DropTableContents ==
    {pre \o drop \o gap \o table \o post :
        pre \in Around({"x"}, MaxAround), drop \in CaseVariants(<<"d", "r", "o", "p">>),
        gap \in {<<>>, <<" ">>}, table \in CaseVariants(<<"t", "a", "b", "l", "e">>),
        post \in Around({"x"}, MaxAround)}

\* what the other patterns find: nothing, or the first pattern of one type
OtherHits == {{}} \cup {{<<t, 1>>} : t \in {ThreatTypes[i] : i \in 1..Len(ThreatTypes)}}

AnalyzeDropTable ==
    /\ nops = 0
    /\ \E chars \in DropTableContents : \E others \in OtherHits :
           \E request_data \in {[content |-> ContentOfChars(chars, others)]} :
               /\ DoAnalyzeRequestSecurity("user_input", request_data)
               /\ args' = [operation |-> "user_input", request_data |-> request_data]
    /\ Called("analyze_request_security")
    /\ UNCHANGED <<compliance_logs, appended_comp>>

SpecDropTable == InitNew /\ [][AnalyzeDropTable]_vars

\* the characters hold 'drop table' in some letter case
HoldsDropTable(chars) ==
    \E i \in 1..Len(chars) :
        WordAt(<<"d", "r", "o", "p", " ", "t", "a", "b", "l", "e">>, chars, i)

\* C17: the analysis of a content holding 'DROP TABLE' in any letter case
\* reports unsafe, a match of type sql_injection and severity critical,
\* whatever else the content holds and the other patterns find.
C17_DropTableIsCritical ==
    (lastOp = "analyze_request_security" /\ HoldsDropTable(args.request_data.content.text)) =>
        /\ ~result.safe
        /\ \E k \in 1..Len(result.threats_detected) :
               result.threats_detected[k].type = "sql_injection"
        /\ result.severity = "critical"

\* C17 witness: 'dRoP tAbLe' between other characters, in a content in
\* which an xss pattern matches too, is reported critical.
C17_Witness ==
    /\ lastOp = "analyze_request_security"
    /\ args.request_data.content.text =
           <<"x", "d", "R", "o", "P", " ", "t", "A", "b", "L", "e", "x">>
    /\ <<"xss", 1>> \in args.request_data.content.hits
    /\ ~result.safe
    /\ result.threat_count = 2
    /\ result.threats_detected[1].pattern = DropTableRule
    /\ result.severity = "critical"

\* \b between the places i - 1 and i of chars
WordBoundary(chars, i) ==
    (i - 1 >= 1 /\ IsWord(chars[i - 1])) # (i <= Len(chars) /\ IsWord(chars[i]))

\* \d{3}-\d{2}-\d{4} stands at place i of chars
SSNShapeAt(chars, i) ==
    /\ i >= 1
    /\ i + 10 <= Len(chars)
    /\ \A k \in 0..10 :
           IF k \in {3, 6} THEN chars[i + k] = "-" ELSE IsDigit(chars[i + k])

\* SSNAt with a fault: the pattern is anchored, ^\d{3}-\d{2}-\d{4}$
SSNAtAnchored(chars, i) ==
    /\ i = 1
    /\ Len(chars) = 11
    /\ SSNShapeAt(chars, i)

\* security.py:86  \b\d{3}-\d{2}-\d{4}\b matches at place i of chars
SSNAt(chars, i) ==
    /\ SSNShapeAt(chars, i)
    /\ WordBoundary(chars, i)
    /\ WordBoundary(chars, i + 11)

\* security.py:167  re.findall(r'\b\d{3}-\d{2}-\d{4}\b', text): the matches
\* from place i on, left to right, none overlapping another
RECURSIVE FindAllSSN(_, _)
FindAllSSN(chars, i) ==
    IF i > Len(chars) THEN <<>>
    ELSE IF SSNAt(chars, i)
         THEN <<SubSeq(chars, i, i + 10)>> \o FindAllSSN(chars, i + 11)
         ELSE FindAllSSN(chars, i + 1)

\* the text with these characters, given what the other patterns find in it
TextOfChars(chars, others) ==
    Text(chars, [others EXCEPT !["ssn"] = FindAllSSN(chars, 1)])

TheSSN == <<"1", "2", "3", "-", "4", "5", "-", "6", "7", "8", "9">>

\* the SSN inside other characters
SSNTexts ==
    {pre \o TheSSN \o post :
        pre \in Around({"x", "1", "_", "-", " "}, MaxAround),
        post \in Around({"x", "1", "_", "-", " "}, MaxAround)}

\* what the other patterns find: of each type nothing or one match
OtherFound == [PIITypeSet -> {Samples(k) : k \in 0..1}]

CheckSSN ==
    /\ nops = 0
    /\ \E chars \in SSNTexts : \E others \in OtherFound :
           \E text \in {TextOfChars(chars, others)} :
               /\ DoCheckDataPrivacy(text)
               /\ args' = [text |-> text]
    /\ Called("check_data_privacy")
    /\ UNCHANGED <<security_events, event_counts, severity_counts, appended_sec>>

SpecSSN == InitNew /\ [][CheckSSN]_vars

\* the PII types found beside the SSN are exactly the email
OnlyEmailBeside(text) ==
    \A t \in PIITypeSet \ {"ssn"} : (text.found[t] # <<>>) = (t = "email")

\* what C18 says of a privacy check of a text that holds an SSN
SSNIsReported ==
    /\ ~result.privacy_safe
    /\ \E k \in 1..Len(result.pii_detected) :
           /\ result.pii_detected[k].type = "ssn"
           /\ result.pii_detected[k].severity = "critical"
    /\ result.compliance_status = "non_compliant"
    /\ OnlyEmailBeside(args.text) =>
           /\ result.pii_types_count = 2
           /\ Len(appended_comp) = 1
           /\ compliance_logs = appended_comp

\* C18 as stated: the privacy check of any text in which the eleven
\* characters of a well-formed SSN stand reports the SSN.
C18_AnySSNIsReported ==
    (/\ lastOp = "check_data_privacy"
     /\ \E i \in 1..Len(args.text.text) : SSNShapeAt(args.text.text, i))
        => SSNIsReported

\* C18 amended: the privacy check of a text in which a well-formed SSN
\* stands with no letter, digit or underscore directly before or after it
\* is unsafe, reports an entry of type ssn and severity critical and is
\* non-compliant; with an email and no other PII beside the SSN two types
\* are counted and one compliance event is appended.
C18_DelimitedSSNIsReported ==
    (/\ lastOp = "check_data_privacy"
     /\ \E i \in 1..Len(args.text.text) :
            /\ SSNShapeAt(args.text.text, i)
            /\ i > 1 => ~IsWord(args.text.text[i - 1])
            /\ i + 11 <= Len(args.text.text) => ~IsWord(args.text.text[i + 11]))
        => SSNIsReported

\* C18 witness: an SSN between a space and a dash, in a text with an email
\* and no other PII, is reported with two types counted and one event logged.
C18_Witness ==
    /\ lastOp = "check_data_privacy"
    /\ args.text.text = <<" ">> \o TheSSN \o <<"-">>
    /\ OnlyEmailBeside(args.text)
    /\ result.pii_types_count = 2
    /\ result.pii_detected[2].type = "ssn"
    /\ result.pii_detected[2].matches = <<TheSSN>>
    /\ result.compliance_status = "non_compliant"
    /\ Len(compliance_logs) = 1

(***************************************************************************)
(* The monitor called from several threads: specifications SpecWriters     *)
(* (threads calling log_security_event) and SpecSummary (a thread calling  *)
(* get_security_summary beside one calling log_security_event).  The code  *)
(* takes no lock, so a call is a sequence of steps, one per read or write  *)
(* of the monitor's attributes, and the steps of the threads interleave.   *)
(* The clock stands still.                                                 *)
(***************************************************************************)
Writers == {"w1", "w2"}

\* what a thread logs: its own description, so that its events can be told
\* from the other thread's
SeverityOf(t) == IF t = "w1" THEN "high" ELSE "critical"

IdleThread ==
    [pc |-> "idle", calls |-> 0, event |-> None, tmp |-> <<>>, cnt |-> 0, summary |-> None]

\* thread t moves to position pc with the locals changed as given
Moved(t, th) == threads' = [threads EXCEPT ![t] = th]

\* the log state is recorded while a summary call is under way
ReaderBusy(th) == "r" \in DOMAIN th /\ th["r"].pc \notin {"idle", "done"}

Observe ==
    snapshots' =
        IF ReaderBusy(threads')
        THEN snapshots \cup {[security_events |-> security_events',
                              compliance_logs |-> compliance_logs']}
        ELSE snapshots

ThreadFrame ==
    UNCHANGED <<compliance_logs, now, args, lastOp, start, appended_comp, nops,
                metrics, health>>

\* security.py:229-236: the event is built, its id from the current length
WBuild(t) ==
    /\ threads[t].pc = "idle"
    /\ threads[t].calls < MaxCalls
    /\ Moved(t, [threads[t] EXCEPT
                   !.pc = "built",
                   !.event = NewSecurityEvent(security_events, "test_event",
                                 <<"Test", t>>, SeverityOf(t), EmptyDict, now)])
    /\ UNCHANGED <<security_events, event_counts, severity_counts, appended_sec, result>>
    /\ ThreadFrame /\ Observe

\* security.py:238
WAppend(t) ==
    /\ threads[t].pc = "built"
    /\ security_events' = Append(security_events, threads[t].event)
    /\ appended_sec' = Append(appended_sec, threads[t].event)
    /\ Moved(t, [threads[t] EXCEPT !.pc = "appended"])
    /\ UNCHANGED <<event_counts, severity_counts, result>>
    /\ ThreadFrame /\ Observe

\* security.py:239, the read of event_counts[event_type]
WReadEventCount(t) ==
    /\ threads[t].pc = "appended"
    /\ Moved(t, [threads[t] EXCEPT
                   !.pc = "event_count_read",
                   !.cnt = IF "test_event" \in DOMAIN event_counts
                           THEN event_counts["test_event"] ELSE 0])
    /\ UNCHANGED <<security_events, event_counts, severity_counts, appended_sec, result>>
    /\ ThreadFrame /\ Observe

\* security.py:239, the write of event_counts[event_type]
WWriteEventCount(t) ==
    /\ threads[t].pc = "event_count_read"
    /\ event_counts' = [k \in DOMAIN event_counts \cup {"test_event"} |->
                           IF k = "test_event" THEN threads[t].cnt + 1
                           ELSE event_counts[k]]
    /\ Moved(t, [threads[t] EXCEPT !.pc = "event_counted"])
    /\ UNCHANGED <<security_events, severity_counts, appended_sec, result>>
    /\ ThreadFrame /\ Observe

\* security.py:240, the read of severity_counts[severity]
WReadSeverityCount(t) ==
    /\ threads[t].pc = "event_counted"
    /\ Moved(t, [threads[t] EXCEPT
                   !.pc = "severity_count_read",
                   !.cnt = IF SeverityOf(t) \in DOMAIN severity_counts
                           THEN severity_counts[SeverityOf(t)] ELSE 0])
    /\ UNCHANGED <<security_events, event_counts, severity_counts, appended_sec, result>>
    /\ ThreadFrame /\ Observe

\* security.py:240, the write of severity_counts[severity]
WWriteSeverityCount(t) ==
    /\ threads[t].pc = "severity_count_read"
    /\ severity_counts' = [k \in DOMAIN severity_counts \cup {SeverityOf(t)} |->
                              IF k = SeverityOf(t) THEN threads[t].cnt + 1
                              ELSE severity_counts[k]]
    /\ Moved(t, [threads[t] EXCEPT !.pc = "severity_counted"])
    /\ UNCHANGED <<security_events, event_counts, appended_sec, result>>
    /\ ThreadFrame /\ Observe

\* security.py:243: the test of the length; the call returns when it fails
WCheck(t) ==
    /\ threads[t].pc = "severity_counted"
    /\ IF Len(security_events) > MaxEvents
       THEN Moved(t, [threads[t] EXCEPT !.pc = "over"])
       ELSE Moved(t, [threads[t] EXCEPT !.pc = "idle", !.calls = @ + 1,
                                        !.event = None, !.cnt = 0])
    /\ UNCHANGED <<security_events, event_counts, severity_counts, appended_sec, result>>
    /\ ThreadFrame /\ Observe

\* security.py:244, the right-hand side: a new list of the last 1000 entries
WSlice(t) ==
    /\ threads[t].pc = "over"
    /\ Moved(t, [threads[t] EXCEPT !.pc = "sliced",
                                   !.tmp = LastN(security_events, MaxEvents)])
    /\ UNCHANGED <<security_events, event_counts, severity_counts, appended_sec, result>>
    /\ ThreadFrame /\ Observe

\* security.py:244, the assignment of the new list; the call returns
WAssign(t) ==
    /\ threads[t].pc = "sliced"
    /\ security_events' = threads[t].tmp
    /\ Moved(t, [threads[t] EXCEPT !.pc = "idle", !.calls = @ + 1,
                                   !.event = None, !.cnt = 0, !.tmp = <<>>])
    /\ UNCHANGED <<event_counts, severity_counts, appended_sec, result>>
    /\ ThreadFrame /\ Observe

\* one step of log_security_event in thread t
WriterStep(t) ==
    \/ WBuild(t)
    \/ WAppend(t)
    \/ WReadEventCount(t)
    \/ WWriteEventCount(t)
    \/ WReadSeverityCount(t)
    \/ WWriteSeverityCount(t)
    \/ WCheck(t)
    \/ WSlice(t)
    \/ WAssign(t)

InitWriters ==
    /\ start \in {"new", "filled"}
    /\ StartIn(StartState(start))
    /\ threads = [t \in Writers |-> IdleThread]
    /\ snapshots = {}

NextWriters == \E t \in Writers : WriterStep(t)

SpecWriters == InitWriters /\ [][NextWriters]_vars

\* no thread is inside a call
Quiescent == \A t \in DOMAIN threads : threads[t].pc \in {"idle", "done"}

\* C4: with several threads in log_security_event the append, the eviction
\* and the id assignment behave as a critical section: no two events get the
\* same id, and once the calls have returned nothing appended is missing but
\* what FIFO eviction removed, and the log holds at most 1000 entries.
C4_AppendIsCriticalSection ==
    /\ \A i, j \in 1..Len(appended_sec) :
           i < j => appended_sec[i].id # appended_sec[j].id
    /\ Quiescent => HoldsNewestOf(security_events, AllAppendedSec)
    /\ Quiescent => Len(security_events) <= MaxEvents

\* the entries of the summary dict in the order the code evaluates them
SummaryFields ==
    <<"total_security_events", "recent_events_count", "event_types",
      "severity_distribution", "total_compliance_logs", "recent_compliance_count",
      "latest_security_events", "latest_compliance_logs", "security_score",
      "compliance_score">>

\* security.py:284-287: the list of the recent security events is built
RRecentEvents(t) ==
    /\ threads[t].pc = "idle"
    /\ threads[t].calls < 1
    /\ Moved(t, [threads[t] EXCEPT
                   !.pc = "recent_events",
                   !.summary = [recent_events |-> RecentWithin(security_events, now)]])
    /\ UNCHANGED <<security_events, event_counts, severity_counts, appended_sec, result>>
    /\ ThreadFrame /\ Observe

\* security.py:289-292: the list of the recent compliance logs is built
RRecentCompliance(t) ==
    /\ threads[t].pc = "recent_events"
    /\ Moved(t, [threads[t] EXCEPT
                   !.pc = "field",
                   !.cnt = 1,
                   !.summary = [recent_events |-> threads[t].summary.recent_events,
                                recent_compliance |-> RecentWithin(compliance_logs, now)]])
    /\ UNCHANGED <<security_events, event_counts, severity_counts, appended_sec, result>>
    /\ ThreadFrame /\ Observe

\* security.py:295-304: the value of the k-th entry of the returned dict,
\* read from the monitor as it is at this moment
FieldValue(k, local) ==
    CASE k = 1 -> Len(security_events)
      [] k = 2 -> Len(local.recent_events)
      [] k = 3 -> event_counts
      [] k = 4 -> severity_counts
      [] k = 5 -> Len(compliance_logs)
      [] k = 6 -> Len(local.recent_compliance)
      [] k = 7 -> IF security_events # <<>> THEN LastN(security_events, LatestCount) ELSE <<>>
      [] k = 8 -> IF compliance_logs # <<>> THEN LastN(compliance_logs, LatestCount) ELSE <<>>
      [] k = 9 -> CalculateSecurityScore(security_events, now)
      [] k = 10 -> CalculateComplianceScore(compliance_logs, now)

\* the local dict with one more entry
WithField(local, name, value) ==
    [f \in DOMAIN local \cup {name} |-> IF f = name THEN value ELSE local[f]]

\* security.py:294-305: the next entry of the returned dict is evaluated;
\* after the last one the dict is returned
RField(t) ==
    /\ threads[t].pc = "field"
    /\ LET k == threads[t].cnt
           local == WithField(threads[t].summary, SummaryFields[k],
                              FieldValue(k, threads[t].summary))
       IN IF k < Len(SummaryFields)
          THEN /\ Moved(t, [threads[t] EXCEPT !.cnt = k + 1, !.summary = local])
               /\ result' = result
          ELSE /\ Moved(t, [threads[t] EXCEPT !.pc = "done", !.calls = @ + 1,
                                             !.cnt = 0, !.summary = None])
               /\ result' = [f \in DOMAIN local \ {"recent_events", "recent_compliance"}
                                |-> local[f]]
    /\ UNCHANGED <<security_events, event_counts, severity_counts, appended_sec>>
    /\ ThreadFrame /\ Observe

\* one step of get_security_summary in thread t
ReaderStep(t) ==
    \/ RRecentEvents(t)
    \/ RRecentCompliance(t)
    \/ RField(t)

InitSummary ==
    /\ start \in {"new", "filled"}
    /\ StartIn(StartState(start))
    /\ threads = [t \in {"w1", "r"} |-> IdleThread]
    /\ snapshots = {}

NextSummary ==
    \/ WriterStep("w1")
    \/ ReaderStep("r")

SpecSummary == InitSummary /\ [][NextSummary]_vars

\* the entries of the summary that are read off the two logs
LogFields ==
    {"total_security_events", "recent_events_count", "latest_security_events",
     "security_score", "total_compliance_logs", "recent_compliance_count",
     "latest_compliance_logs", "compliance_score"}

\* the summary agrees, on the entries read off the logs, with the summary of
\* the one log state s
SummaryOfState(summary, s) ==
    LET whole == SecuritySummary(s.security_events, s.compliance_logs,
                                 event_counts, severity_counts, now)
    IN \A f \in LogFields : summary[f] = whole[f]

\* C5: a summary returned while another thread appends is the summary of one
\* single log state that existed during the call.
C5_SummaryOfOneState ==
    ("r" \in DOMAIN threads /\ threads["r"].pc = "done") =>
        \E s \in snapshots : SummaryOfState(result, s)

(***************************************************************************)
(* Appends to full logs of several makes: specification SpecEvict.         *)
(***************************************************************************)
\* a monitor after n calls of log_security_event at time 0, the first with
\* severity first and the others with severity rest, and n compliant calls
\* of log_compliance_event
Stored(n, first, rest) ==
    [Filled(n) EXCEPT
        !.security_events =
            [i \in 1..n |-> [@[i] EXCEPT !.severity = IF i = 1 THEN first ELSE rest]],
        !.severity_counts =
            IF first = rest THEN [k \in {rest} |-> n]
            ELSE [k \in {first, rest} |-> IF k = first THEN 1 ELSE n - 1]]

InitEvict ==
    /\ start = "stored"
    /\ \E first \in {"critical", "low"}, rest \in {"low", "info"} :
           StartIn(Stored(MaxEvents - Headroom, first, rest))
    /\ NoThreads

NextEvict ==
    \/ LogSecurityEvent
    \/ Tick

SpecEvict == InitEvict /\ [][NextEvict]_vars

\* C27 as stated: an append never raises the security score, eviction or not.
C27_AppendNeverRaisesScore ==
    [][lastOp' = "log_security_event" =>
          CalculateSecurityScore(security_events', now')
              <= CalculateSecurityScore(security_events, now)]_vars

\* C27: at a fixed clock an append does not raise the security score when it
\* evicts nothing, nor when it evicts the oldest event of a full log whose
\* events all have a severity among low, medium, high, critical.
C27_AppendLowersScoreOfKnownLog ==
    [][(/\ lastOp' = "log_security_event"
        /\ \/ Len(security_events) < MaxEvents
           \/ KnownSeverity(security_events) = security_events)
          => CalculateSecurityScore(security_events', now')
                 <= CalculateSecurityScore(security_events, now)]_vars

\* C27 witness: a full log of events older than a day, a critical one
\* among the low ones, lost its oldest entry to a high event, and the score
\* went down from 80 to 70.
C27_Witness ==
    /\ lastOp = "log_security_event"
    /\ args.severity = "high"
    /\ Len(security_events) = MaxEvents
    /\ Len(appended_sec) = Headroom + 1
    /\ KnownSeverity(security_events) = security_events
    /\ security_events[1].severity = "low"
    /\ ScoreOfLog = 70

(***************************************************************************)
(* The SecurityMonitor of SDK-HR (src/SDK-HR/python/hr_agent_sdk), whose   *)
(* two logs are held in security_events and compliance_logs.               *)
(***************************************************************************)
MaxHRCalls == 2

\* SDK-HR security.py:83-92: the event dict of log_security_event
HRNewSecurityEvent(event_type, description, severity, blocked, t) ==
    [event_type |-> event_type, description |-> description,
     severity |-> severity, source_ip |-> None, endpoint |-> None,
     blocked |-> blocked, timestamp |-> t, metadata |-> EmptyDict]

\* SDK-HR security.py:111-120: the event dict of log_compliance_event
HRNewComplianceEvent(compliance_type, event_description, encryption_status, data_location, t) ==
    [compliance_type |-> compliance_type,
     event_description |-> event_description, data_processed |-> None,
     user_consent |-> None, encryption_status |-> encryption_status,
     data_location |-> data_location, timestamp |-> t, metadata |-> EmptyDict]

\* an SDK-HR monitor after n calls log_security_event("test_event", "Test")
\* and n calls log_compliance_event("gdpr", "Test"), all made at time 0
HRFilled(n) ==
    [security_events |-> <<>> \o
        [i \in 1..n |-> HRNewSecurityEvent("test_event", <<"Test">>, "medium",
                                           FALSE, 0)],
     compliance_logs |-> <<>> \o
        [i \in 1..n |-> HRNewComplianceEvent("gdpr", <<"Test">>, TRUE, "cloud", 0)],
     event_counts |-> EmptyDict, severity_counts |-> EmptyDict]

HRNearlyFull == HRFilled(MaxEvents - Headroom)

\* SDK-HR security.py:11-13: a new monitor, or one whose logs are nearly full
InitHR ==
    /\ start \in {"new", "filled"}
    /\ StartIn(IF start = "new" THEN Fresh ELSE HRNearlyFull)
    /\ NoThreads

\* SDK-HR security.py:71-96
HRLogSecurityEvent ==
    /\ nops < MaxHRCalls
    /\ \E severity \in Severities, blocked \in BOOLEAN :
           LET event == HRNewSecurityEvent("test_event", <<"Test">>, severity,
                                           blocked, now)
           IN /\ security_events' = Append(security_events, event)
              /\ result' = event
              /\ args' = [event_type |-> "test_event", severity |-> severity,
                          blocked |-> blocked]
    /\ Called("log_security_event")
    /\ UNCHANGED <<compliance_logs, event_counts, severity_counts,
                   appended_sec, appended_comp>>

\* SDK-HR security.py:98-123
HRLogComplianceEvent ==
    /\ nops < MaxHRCalls
    /\ \E encryption_status \in BOOLEAN, data_location \in {"cloud", "on_premise"} :
           LET event == HRNewComplianceEvent("gdpr", <<"Test">>, encryption_status,
                                             data_location, now)
           IN /\ compliance_logs' = Append(compliance_logs, event)
              /\ result' = event
              /\ args' = [compliance_type |-> "gdpr",
                          encryption_status |-> encryption_status,
                          data_location |-> data_location]
    /\ Called("log_compliance_event")
    /\ UNCHANGED <<security_events, event_counts, severity_counts,
                   appended_sec, appended_comp>>

NextHR ==
    \/ HRLogSecurityEvent
    \/ HRLogComplianceEvent

SpecHR == InitHR /\ [][NextHR]_vars

\* C21: in the SDK-HR monitor each of the two logs holds at most 1000
\* entries after any sequence of log calls.
C21_HRLogsAreCapped ==
    /\ Len(security_events) <= MaxEvents
    /\ Len(compliance_logs) <= MaxEvents

(***************************************************************************)
(* AgentTracker.track_request (tracker.py) and the MetricsCollector it     *)
(* updates (metrics.py).                                                   *)
(***************************************************************************)
\* the operation names given to track_request; the second would match the
\* sql_injection and xss patterns if it were scanned
Operations == {"openai_completion", "DROP TABLE users; <script>"}

\* the classes of the exceptions a block raises; the last two derive from
\* BaseException only
ExceptionClasses == {"ValueError", "KeyError", "KeyboardInterrupt", "SystemExit"}

\* tracker.py:93  except Exception: isinstance(e, Exception)
IsException(class) == class \notin {"KeyboardInterrupt", "SystemExit", "GeneratorExit"}

\* how the body of the with statement ends, and the milliseconds it took
Blocks ==
    {[exit |-> "normal", latency |-> 100]}
        \cup {[exit |-> "raise", exception |-> c, latency |-> 100] :
                 c \in ExceptionClasses}

\* UpdateRequest with a fault: every request is counted as a success
UpdateRequestAsSuccess(m, latency, success) ==
    [m EXCEPT !.total_requests = @ + 1,
              !.latencies = Append(@, latency),
              !.successful_requests = @ + 1]

\* metrics.py:58-72
UpdateRequest(m, latency, success) ==
    [m EXCEPT !.total_requests = @ + 1,
              !.latencies = Append(@, latency),
              !.successful_requests = IF success THEN @ + 1 ELSE @,
              !.failed_requests = IF success THEN @ ELSE @ + 1]

\* metrics.py:90-97
UpdateError(m, error_type) == [m EXCEPT !.errors = Bump(@, error_type)]

\* tracker.py:54-113: the context manager from its entry to the end of the
\* with statement; result is what the with statement leaves to its caller,
\* the exception raised or nothing
TrackRequest ==
    /\ nops < MaxOps
    /\ \E operation \in Operations, block \in Blocks :
           /\ LogThreatsOf(operation, [request_id |-> "uuid4",
                                       timestamp |-> "start_time"])
           /\ metrics' =
                  IF block.exit = "normal"
                  THEN UpdateRequest(metrics, block.latency, TRUE)
                  ELSE IF IsException(block.exception)
                       THEN UpdateError(UpdateRequest(metrics, block.latency, FALSE),
                                        block.exception)
                       ELSE metrics
           /\ result' = IF block.exit = "normal" THEN None
                        ELSE [raised |-> block.exception]
           /\ args' = [operation |-> operation, block |-> block]
    /\ lastOp' = "track_request"
    /\ nops' = nops + 1
    /\ UNCHANGED <<compliance_logs, appended_comp, now, start, threads,
                   snapshots, health>>

NextTrack ==
    \/ TrackRequest
    \/ AnalyzeRequestSecurity

SpecTrack == Init /\ [][NextTrack]_vars

\* errors[k] of a defaultdict(int)
ErrorCount(m, k) == IF k \in DOMAIN m.errors THEN m.errors[k] ELSE 0

\* the counters of a block that ended normally
RecordedAsSuccess ==
    /\ metrics'.total_requests = metrics.total_requests + 1
    /\ metrics'.successful_requests = metrics.successful_requests + 1
    /\ metrics'.failed_requests = metrics.failed_requests
    /\ metrics'.errors = metrics.errors
    /\ result' = None

\* the counters of a block that raised an exception of class c, and the
\* exception the caller sees
RecordedAsFailure(c) ==
    /\ metrics'.total_requests = metrics.total_requests + 1
    /\ metrics'.failed_requests = metrics.failed_requests + 1
    /\ metrics'.successful_requests = metrics.successful_requests
    /\ ErrorCount(metrics', c) = ErrorCount(metrics, c) + 1
    /\ \A k \in DOMAIN metrics'.errors \ {c} :
           ErrorCount(metrics', k) = ErrorCount(metrics, k)
    /\ result' = [raised |-> c]

\* C22 as stated: every tracked block is recorded exactly once, as a success
\* when it ends normally and as a failure with its error type counted when it
\* raises, whatever it raises.
C22_EveryBlockIsRecorded ==
    [][lastOp' = "track_request" =>
          IF args'.block.exit = "normal"
          THEN RecordedAsSuccess
          ELSE RecordedAsFailure(args'.block.exception)]_vars

\* C22: a tracked block that ends normally is recorded once as a success; a
\* block that raises an instance of Exception is recorded once as a failure,
\* the count of its class grows by one and the same exception reaches the
\* caller.
C22_BlockIsRecordedOnce ==
    [][lastOp' = "track_request" =>
          IF args'.block.exit = "normal"
          THEN RecordedAsSuccess
          ELSE IsException(args'.block.exception) =>
                   RecordedAsFailure(args'.block.exception)]_vars

\* C22 witness: after a success and a ValueError, a second ValueError was
\* raised and recorded.
C22_Witness ==
    /\ lastOp = "track_request"
    /\ result = [raised |-> "ValueError"]
    /\ metrics.total_requests = 3
    /\ metrics.successful_requests = 1
    /\ metrics.failed_requests = 2
    /\ metrics.errors = [k \in {"ValueError"} |-> 2]

MaxHealthOps == 3

\* health.py:65-67: the measurements kept
MaxResponseTimes == 100

\* health.py:38
ValidStatuses == {"healthy", "warning", "critical"}

\* health.py:204-214: get_error_rate() > percent; the rate is
\* error_count / total_checks * 100, and 0.0 before the first check
ErrorRateAbove(h, percent) ==
    /\ h.total_checks # 0
    /\ h.error_count * 100 > percent * h.total_checks

RECURSIVE SumTimes(_)
SumTimes(times) == IF times = <<>> THEN 0 ELSE Head(times) + SumTimes(Tail(times))

\* health.py:216-226: get_average_response_time() > ms; the average is 0.0
\* without measurements
AverageResponseTimeAbove(h, ms) ==
    /\ h.response_times # <<>>
    /\ SumTimes(h.response_times) > ms * Len(h.response_times)

\* health.py:97-138: health_status after the five checks, made in the code's
\* order; the thresholds are those of health.py:27-29
HealthStatus(cpu_usage, memory_usage, disk_usage, h) ==
    LET after_cpu ==
            IF cpu_usage > 80
            THEN (IF cpu_usage > 95 THEN "critical" ELSE "warning")
            ELSE "healthy"
        after_memory ==
            IF memory_usage > 85
            THEN (IF memory_usage > 95 THEN "critical" ELSE "warning")
            ELSE after_cpu
        after_disk ==
            IF disk_usage > 90 /\ after_memory = "healthy" THEN "warning"
            ELSE after_memory
        after_errors ==
            IF ErrorRateAbove(h, 10) THEN "critical"
            ELSE IF ErrorRateAbove(h, 5) /\ after_disk = "healthy" THEN "warning"
            ELSE after_disk
    IN IF AverageResponseTimeAbove(h, 5000) THEN "critical"
       ELSE IF AverageResponseTimeAbove(h, 2000) /\ after_errors = "healthy"
            THEN "warning"
       ELSE after_errors

\* what a call of the health monitor leaves alone
HealthCalled(op) ==
    /\ nops < MaxHealthOps
    /\ lastOp' = op
    /\ nops' = nops + 1
    /\ UNCHANGED <<security_events, compliance_logs, event_counts,
                   severity_counts, now, start, appended_sec, appended_comp,
                   threads, snapshots, metrics>>

\* UpdateStatus with a fault: any string is stored
UpdateStatusUnchecked ==
    /\ \E status \in ValidStatuses \cup {"invalid_status"} :
           /\ health' = [health EXCEPT !.status = status,
                                       !.last_health_check = now]
           /\ result' = None
           /\ args' = [status |-> status]
    /\ HealthCalled("update_status")

\* health.py:31-43
UpdateStatus ==
    /\ \E status \in ValidStatuses \cup {"invalid_status"} :
           /\ IF status \in ValidStatuses
              THEN /\ health' = [health EXCEPT !.status = status,
                                               !.last_health_check = now]
                   /\ result' = None
              ELSE /\ health' = health
                   /\ result' = [raised |-> "ValueError"]
           /\ args' = [status |-> status]
    /\ HealthCalled("update_status")

\* health.py:55-67
LogResponseTime ==
    /\ \E response_time \in {3000, 9000} :
           /\ health' = [health EXCEPT
                            !.response_times =
                                LastN(Append(@, response_time), MaxResponseTimes),
                            !.max_response_time = Max(@, response_time)]
           /\ args' = [response_time |-> response_time]
    /\ result' = None
    /\ HealthCalled("log_response_time")

\* health.py:69-83
LogError ==
    /\ LET counted == [health EXCEPT !.error_count = @ + 1]
       IN health' = [counted EXCEPT !.status =
                        IF ErrorRateAbove(counted, 10) THEN "critical"
                        ELSE IF ErrorRateAbove(counted, 5) THEN "warning"
                        ELSE @]
    /\ args' = [error_type |-> "ValueError"]
    /\ result' = None
    /\ HealthCalled("log_error")

\* health.py:85-150; a metric psutil could not supply reads as 0
PerformHealthCheck ==
    /\ \E cpu_usage \in {0, 85, 96}, memory_usage \in {0, 90, 96},
          disk_usage \in {0, 95} :
           LET checked == [health EXCEPT !.total_checks = @ + 1,
                                         !.last_health_check = now]
               health_status == HealthStatus(cpu_usage, memory_usage,
                                             disk_usage, checked)
               found == [cpu |-> cpu_usage > 80, memory |-> memory_usage > 85,
                         disk |-> disk_usage > 90,
                         error_rate |-> ErrorRateAbove(checked, 5),
                         response_time |-> AverageResponseTimeAbove(checked, 2000)]
           IN /\ health' = [checked EXCEPT !.status = health_status]
              /\ result' = [status |-> health_status,
                            issues |-> SelectSeq(<<"cpu", "memory", "disk",
                                                   "error_rate", "response_time">>,
                                                 LAMBDA check : found[check])]
              /\ args' = [cpu_percent |-> cpu_usage,
                          memory_percent |-> memory_usage,
                          disk_percent |-> disk_usage]
    /\ HealthCalled("perform_health_check")

\* health.py:257-265
ResetMetrics ==
    /\ health' = NewHealth(now)
    /\ args' = None
    /\ result' = None
    /\ HealthCalled("reset_metrics")

\* a health monitor made at time 0, new or after twenty checks that found
\* nothing, a minute later
InitHealth ==
    /\ \E checks \in {0, 20} :
           health = [NewHealth(0) EXCEPT !.total_checks = checks]
    /\ now = 60
    /\ metrics = NewMetrics
    /\ security_events = <<>>
    /\ compliance_logs = <<>>
    /\ event_counts = EmptyDict
    /\ severity_counts = EmptyDict
    /\ appended_sec = <<>>
    /\ appended_comp = <<>>
    /\ start = "new"
    /\ result = None
    /\ args = None
    /\ lastOp = "init"
    /\ nops = 0
    /\ NoThreads

NextHealth ==
    \/ UpdateStatus
    \/ LogResponseTime
    \/ LogError
    \/ PerformHealthCheck
    \/ ResetMetrics

SpecHealth == InitHealth /\ [][NextHealth]_vars

\* C23: the status is always one of healthy, warning, critical: update_status
\* stores a valid value and stamps the check time, refuses any other value
\* with a ValueError leaving status and last_health_check as they were, and
\* no other call stores anything else.
C23_StatusIsValid ==
    [][/\ health.status \in {"healthy", "warning", "critical"}
       /\ health'.status \in {"healthy", "warning", "critical"}
       /\ lastOp' = "update_status" =>
              IF args'.status \in {"healthy", "warning", "critical"}
              THEN /\ health'.status = args'.status
                   /\ health'.last_health_check = now
                   /\ result' = None
              ELSE /\ result' = [raised |-> "ValueError"]
                   /\ health'.status = health.status
                   /\ health'.last_health_check = health.last_health_check]_vars

\* C23 witness: an invalid status was refused after an error had made the
\* status critical, and the time of the last check is still that of the check.
C23_Witness ==
    /\ lastOp = "update_status"
    /\ args.status = "invalid_status"
    /\ result = [raised |-> "ValueError"]
    /\ health.status = "critical"
    /\ health.error_count = 1
    /\ health.total_checks = 1

\* the level of each check that perform_health_check makes
CheckLevels ==
    {IF args.cpu_percent > 95 THEN "critical"
        ELSE IF args.cpu_percent > 80 THEN "warning" ELSE "healthy",
     IF args.memory_percent > 95 THEN "critical"
        ELSE IF args.memory_percent > 85 THEN "warning" ELSE "healthy",
     IF args.disk_percent > 90 THEN "warning" ELSE "healthy",
     IF ErrorRateAbove(health, 10) THEN "critical"
        ELSE IF ErrorRateAbove(health, 5) THEN "warning" ELSE "healthy",
     IF AverageResponseTimeAbove(health, 5000) THEN "critical"
        ELSE IF AverageResponseTimeAbove(health, 2000) THEN "warning" ELSE "healthy"}

\* C30: a health check returns and stores the worst level among its checks:
\* critical as soon as one check is at critical level.
C30_WorstLevelWins ==
    lastOp = "perform_health_check" =>
        /\ result.status = health.status
        /\ "critical" \in CheckLevels => health.status = "critical"

====
